---- MODULE Spec2Model ----
(***************************************************************************)
(* Entity registry, frame phases and save/load of game_engine              *)
(* (src/src/core.rs).  Slots are Rc<Cell<Option<Box<dyn ...>>>> cells,     *)
(* identified here by the address of their allocation (an Id).  The        *)
(* registry layers hold the strong handles, entities hold weak handles.    *)
(***************************************************************************)
EXTENDS Integers, Sequences, FiniteSets, TLC

\* ---------------------------------------------------------------- bounds
\* most persistent entities alive in the layers (and pending) at once
MaxPersistent == 2
\* most volatile entities alive in the layers (and pending) at once
MaxVolatile == 1

\* allocation addresses: a load builds its entities while the old ones are
\* still owned by the registry, so twice the persistent bound is needed
Ids == 1..(2 * MaxPersistent + MaxVolatile)

\* ---------------------------------------------------------------- layers
\* the layer names given at construction, in rendering order
layer_names == <<"objects", "background">>

\* iteration order of a BTreeMap keyed by layer name (lexicographic), over
\* every name that occurs in the registry or in a document
KeyOrder == <<"background", "hud", "objects">>

Keys(m) == SelectSeq(KeyOrder, LAMBDA k : k \in DOMAIN m)

Range(s) == {s[i] : i \in 1..Len(s)}

RECURSIVE Flatten(_, _)
Flatten(m, ks) == IF ks = <<>> THEN <<>> ELSE m[Head(ks)] \o Flatten(m, Tail(ks))

\* every entity of a layer map, in BTreeMap iteration order
Values(m) == Flatten(m, Keys(m))

\* Remove that counts the index from the end of the vector
Remove_mirror(s, i) ==
    [j \in 1..(Len(s) - 1) |-> IF j < Len(s) + 1 - i THEN s[j] ELSE s[j + 1]]

\* Vec::remove
Remove(s, i) == [j \in 1..(Len(s) - 1) |-> IF j < i THEN s[j] ELSE s[j + 1]]

\* ---------------------------------------------------------------- references
RefNone == [v |-> "None", p |-> 0]
RefDespawned == [v |-> "Despawned", p |-> 0]
RefSome(id) == [v |-> "Some", p |-> id]

\* enum Tag of the save document
TagNone == [t |-> "None", u |-> 0]
TagDespawned == [t |-> "Despawned", u |-> 0]
TagSome(n) == [t |-> "Some", u |-> n]

\* ---------------------------------------------------------------- entities
\* a Follower holds one declared reference; the other kinds hold none
Follower(f) == [kind |-> "Follower", followee |-> f]
PrimarySquare == [kind |-> "PrimarySquare", followee |-> RefNone]
PrimarySquareTail == [kind |-> "PrimarySquareTail", followee |-> RefNone]

\* the allocation is gone (strong count 0)
Freed == [kind |-> "Freed", followee |-> RefNone]
\* the allocation exists and its Cell holds Option::None (checked out)
NoneCell == [kind |-> "None", followee |-> RefNone]
\* no Box held in a local variable
NoBox == [kind |-> "NoBox", followee |-> RefNone]

PersistentKinds == {"Follower", "PrimarySquare"}

save_entity_references(obj) ==
    IF obj.kind = "Follower" THEN <<obj.followee>> ELSE <<>>

\* load_entity_references that ignores a list of the wrong length
load_entity_references_lenient(obj, v) ==
    IF obj.kind = "Follower" /\ Len(v) = 1
    THEN [ok |-> TRUE, obj |-> Follower(v[1])]
    ELSE [ok |-> TRUE, obj |-> obj]

\* [ok |-> FALSE] is the panic of load_entity_references
load_entity_references(obj, v) ==
    IF obj.kind = "Follower"
    THEN IF Len(v) # 1 THEN [ok |-> FALSE, obj |-> obj]
         ELSE [ok |-> TRUE, obj |-> Follower(v[1])]
    ELSE IF v # <<>> THEN [ok |-> FALSE, obj |-> obj]
         ELSE [ok |-> TRUE, obj |-> obj]

VARIABLES
    persistent_layers,  \* layer name -> sequence of ids (PersistentState)
    volatile_layers,    \* layer name -> sequence of ids
    cells,              \* id -> Freed, NoneCell or the entity in the cell
    pc,                 \* where GameState::run is
    todo,               \* positions the current phase still has to visit
    sub,                \* "idle", or "cb" while an entity's callback runs
    e,                  \* the Box the phase runner took out of the cell
    held,               \* what the callback got from PersistentRef::get
    res,                \* results of the callback's PersistentRef::get calls, in order
    persistent_spawn,   \* spawn requests collected in this frame
    volatile_spawn,
    file,               \* the document at the save path
    last,               \* the last registry operation and its result
    calls,              \* id -> calls received in this frame (0..3)
    frame,              \* layers at the start of the frame, ids inserted
    saved,              \* reference topology of the registry at the last save
    ui,                 \* the UI: its layers, its UIState, the last process call
    fonts               \* the FontManager, the fonts loaded and their wrappers

game_vars == <<persistent_layers, volatile_layers, cells, pc, todo, sub, e, held, res,
               persistent_spawn, volatile_spawn, file, last, calls, frame, saved>>

vars == <<game_vars, ui, fonts>>


\* ---------------------------------------------------------------- allocation
\* Rc::weak_count: the weak handles that point at the allocation
weak_count(c, id) == Cardinality({j \in Ids : c[j].followee = RefSome(id)})

\* an address can be handed out again once no strong and no weak handle is left
FreeIds(c) == {i \in Ids : c[i] = Freed /\ weak_count(c, i) = 0}

RECURSIVE SortedSeq(_)
SortedSeq(S) ==
    IF S = {} THEN <<>>
    ELSE LET m == CHOOSE x \in S : \A y \in S : x <= y
         IN <<m>> \o SortedSeq(S \ {m})

\* the addresses of the next n allocations (Rc::new)
NewIds(c, n) == SubSeq(SortedSeq(FreeIds(c)), 1, n)

RECURSIVE Dedup(_)
Dedup(s) ==
    IF s = <<>> THEN <<>>
    ELSE <<Head(s)>> \o Dedup(SelectSeq(Tail(s), LAMBDA x : x # Head(s)))

\* The program observes an address only through equality (Rc::ptr_eq,
\* Weak::upgrade), so registries that differ by a renaming of addresses are the
\* same registry.  Between frames the model keeps one representative: the
\* entities take the addresses 1, 2, ... in iteration order, the freed
\* allocations that weak handles still point at come next.
Canon(pl, vl, c) ==
    LET live == Values(pl) \o Values(vl)
        dangling == SelectSeq([n \in 1..Len(live) |-> c[live[n]].followee.p],
                              LAMBDA x : x # 0 /\ x \notin Range(live))
        ord == live \o Dedup(dangling)
        idx(id) == CHOOSE n \in 1..Len(ord) : ord[n] = id
        ren(o) == IF o.followee.v = "Some"
                  THEN [o EXCEPT !.followee = RefSome(idx(o.followee.p))]
                  ELSE o
    IN [persistent |-> [k \in DOMAIN pl |-> [i \in 1..Len(pl[k]) |-> idx(pl[k][i])]],
        volatile |-> [k \in DOMAIN vl |-> [i \in 1..Len(vl[k]) |-> idx(vl[k][i])]],
        cells |-> [i \in Ids |-> IF i <= Len(ord) THEN ren(c[ord[i]]) ELSE Freed]]

\* the registry after an operation between frames
Settle(pl, vl, c) ==
    /\ persistent_layers' = Canon(pl, vl, c).persistent
    /\ volatile_layers' = Canon(pl, vl, c).volatile
    /\ cells' = Canon(pl, vl, c).cells

\* ---------------------------------------------------------------- save
KeyIndex(k) == CHOOSE i \in 1..Len(KeyOrder) : KeyOrder[i] = k

\* number of entities in the layers iterated before layer k
Offset(m, k) ==
    Len(Flatten(m, SelectSeq(Keys(m), LAMBDA x : KeyIndex(x) < KeyIndex(k))))

\* next_tag with the counter restarted for every layer
next_tag_per_layer(layers, k, i) == i - 1

\* next_tag with the counter started at 1
next_tag_from_one(layers, k, i) == Offset(layers, k) + i

\* first pass: the value of next_tag when entity i of layer k is tagged
next_tag(layers, k, i) == Offset(layers, k) + (i - 1)

\* lookup_tag with the tags given in the order of the addresses
lookup_tag_by_address(layers, c) ==
    [id \in {x \in Range(Values(layers)) : weak_count(c, x) # 0} |->
        Cardinality({y \in Range(Values(layers)) : y < id})]

\* lookup_tag that leaves out every entity with fewer than two weak handles
lookup_tag_strict(layers, c) ==
    [id \in {x \in Range(Values(layers)) : weak_count(c, x) > 1} |->
        LET k == CHOOSE k \in DOMAIN layers : id \in Range(layers[k])
            i == CHOOSE i \in 1..Len(layers[k]) : layers[k][i] = id
        IN next_tag(layers, k, i)]

\* the lookup without the test on the weak count: every entity of the layers
\* is inserted under its address
lookup_tag_all(layers, c) ==
    [id \in Range(Values(layers)) |->
        LET k == CHOOSE k \in DOMAIN layers : id \in Range(layers[k])
            i == CHOOSE i \in 1..Len(layers[k]) : layers[k][i] = id
        IN next_tag(layers, k, i)]

\* first pass: HashMap<PersistentEntity, u64>, only for weak_count != 0
lookup_tag(layers, c) ==
    [id \in {x \in Range(Values(layers)) : weak_count(c, x) # 0} |->
        LET k == CHOOSE k \in DOMAIN layers : id \in Range(layers[k])
            i == CHOOSE i \in 1..Len(layers[k]) : layers[k][i] = id
        IN next_tag(layers, k, i)]

\* upgrade that succeeds on a freed allocation
upgrade_always(c, id) == TRUE

\* Weak::upgrade gives a strong handle while the allocation is alive
upgrade(c, id) == c[id] # Freed

\* SaveRef with the lookup done without the upgrade test
SaveRef_lookup_first(r, c, lookup) ==
    CASE r.v = "None" -> TagNone
      [] r.v = "Despawned" -> TagDespawned
      [] r.v = "Some" ->
            IF r.p \in DOMAIN lookup THEN TagSome(lookup[r.p])
            ELSE [t |-> "Panic", u |-> 0]

\* SaveRef with a handle that fails to upgrade written as unset
SaveRef_unset(r, c, lookup) ==
    CASE r.v = "None" -> TagNone
      [] r.v = "Despawned" -> TagDespawned
      [] r.v = "Some" ->
            IF ~upgrade(c, r.p) THEN TagNone
            ELSE IF r.p \in DOMAIN lookup THEN TagSome(lookup[r.p])
            ELSE [t |-> "Panic", u |-> 0]

\* second pass, one declared reference; "Panic" is the unwrap of a missing key
SaveRef(r, c, lookup) ==
    CASE r.v = "None" -> TagNone
      [] r.v = "Despawned" -> TagDespawned
      [] r.v = "Some" ->
            IF ~upgrade(c, r.p) THEN TagDespawned
            ELSE IF r.p \in DOMAIN lookup THEN TagSome(lookup[r.p])
            ELSE [t |-> "Panic", u |-> 0]

\* second pass, the refs of one entity
SaveRefs(obj, c, lookup) ==
    [j \in 1..Len(save_entity_references(obj)) |->
        SaveRef(save_entity_references(obj)[j], c, lookup)]

\* TaggedPersistent as written to the document; e is the typetag payload
\* (the followee field is #[serde(skip)])
TaggedPersistent(layers, c, lookup, k, i) ==
    [e |-> c[layers[k][i]].kind,
     tag |-> next_tag(layers, k, i),
     refs |-> SaveRefs(c[layers[k][i]], c, lookup)]

\* the document written by a save; status "panic" when an unwrap fails
\* (a cell found empty, or a reference target missing from lookup_tag)
serialize_layers(layers, c) ==
    LET lookup == lookup_tag(layers, c)
        doc == [k \in DOMAIN layers |->
                  [i \in 1..Len(layers[k]) |-> TaggedPersistent(layers, c, lookup, k, i)]]
        bad == \E k \in DOMAIN layers : \E i \in 1..Len(layers[k]) :
                  \/ c[layers[k][i]] = NoneCell
                  \/ \E j \in 1..Len(doc[k][i].refs) : doc[k][i].refs[j].t = "Panic"
    IN [status |-> IF bad THEN "panic" ELSE "ok", layers |-> doc]

\* ---------------------------------------------------------------- load
\* typetag decoding of the payload; skipped fields take their default
Decode(kind) == IF kind = "Follower" THEN Follower(RefNone) ELSE PrimarySquare

\* referenced_tags that looks at the reference list of the first entity only
referenced_tags_first(tagged) ==
    UNION {{tagged[n].refs[j].u :
                j \in {x \in 1..Len(tagged[n].refs) : tagged[n].refs[x].t = "Some"}} :
           n \in 1..Len(tagged) \cap {1}}

\* HashSet of the tags that occur in some reference list
referenced_tags(tagged) ==
    UNION {{tagged[n].refs[j].u :
                j \in {x \in 1..Len(tagged[n].refs) : tagged[n].refs[x].t = "Some"}} :
           n \in 1..Len(tagged)}

\* lookup_entity keyed by the position of the entity instead of its tag
lookup_entity_first(tagged, ids) ==
    [u \in {tagged[n].tag : n \in 1..Len(tagged)} \cap referenced_tags(tagged) |-> ids[1]]

\* lookup_entity in which a tag carried by several entities keeps the entity
\* inserted first
lookup_entity_keep_first(tagged, ids) ==
    [u \in {tagged[n].tag : n \in 1..Len(tagged)} \cap referenced_tags(tagged) |->
        LET n == CHOOSE n \in 1..Len(tagged) :
                    /\ tagged[n].tag = u
                    /\ \A m \in 1..(n - 1) : tagged[m].tag # u
        IN ids[n]]

\* HashMap<u64, PersistentEntity> over the referenced tags; a tag carried by
\* several entities keeps the entity inserted last
lookup_entity(tagged, ids) ==
    [u \in {tagged[n].tag : n \in 1..Len(tagged)} \cap referenced_tags(tagged) |->
        LET n == CHOOSE n \in 1..Len(tagged) :
                    /\ tagged[n].tag = u
                    /\ \A m \in (n + 1)..Len(tagged) : tagged[m].tag # u
        IN ids[n]]

\* the lookup without the test on referenced_tags: every tagged entity is
\* inserted under its tag
lookup_entity_all(tagged, ids) ==
    [u \in {tagged[n].tag : n \in 1..Len(tagged)} |->
        LET n == CHOOSE n \in 1..Len(tagged) :
                    /\ tagged[n].tag = u
                    /\ \A m \in (n + 1)..Len(tagged) : tagged[m].tag # u
        IN ids[n]]

\* one entry of a reference list; "Panic" is the unwrap of a missing tag
LoadRef(r, lookup) ==
    CASE r.t = "None" -> RefNone
      [] r.t = "Despawned" -> RefDespawned
      [] r.t = "Some" ->
            IF r.u \in DOMAIN lookup THEN RefSome(lookup[r.u])
            ELSE [v |-> "Panic", p |-> 0]

LoadRefs(refs, lookup) == [j \in 1..Len(refs) |-> LoadRef(refs[j], lookup)]

\* the layers built from a parsed document: one new allocation per entity in
\* document order, references rewired, load_entity_references called
deserialize_layers(doc, c) ==
    LET tagged == Values(doc)
        ids == NewIds(c, Len(tagged))
        lookup == lookup_entity(tagged, ids)
        loaded(n) == load_entity_references(Decode(tagged[n].e),
                                            LoadRefs(tagged[n].refs, lookup))
        bad == \E n \in 1..Len(tagged) :
                  \/ \E j \in 1..Len(tagged[n].refs) :
                        LoadRef(tagged[n].refs[j], lookup).v = "Panic"
                  \/ ~loaded(n).ok
    IN [status |-> IF bad THEN "panic" ELSE "ok",
        layers |-> [k \in DOMAIN doc |->
                      [i \in 1..Len(doc[k]) |-> ids[Offset(doc, k) + i]]],
        cells |-> [i \in Ids |->
                      IF \E n \in 1..Len(tagged) : ids[n] = i
                      THEN loaded(CHOOSE n \in 1..Len(tagged) : ids[n] = i).obj
                      ELSE c[i]]]

\* replace that appends the loaded entities to the layers
replace_merge(temp, state) ==
    IF Keys(temp) # Keys(state)
    THEN [ok |-> FALSE, state |-> state, temp |-> temp]
    ELSE [ok |-> TRUE,
          state |-> [k \in DOMAIN state |-> state[k] \o temp[k]],
          temp |-> [k \in DOMAIN state |-> <<>>]]

\* replace without the comparison of the layer names
replace_unchecked(temp, state) == [ok |-> TRUE, state |-> temp, temp |-> state]

\* PersistentStateTemp::replace: all layers swapped, or none
replace(temp, state) ==
    IF Keys(temp) # Keys(state)
    THEN [ok |-> FALSE, state |-> state, temp |-> temp]
    ELSE [ok |-> TRUE,
          state |-> [k \in DOMAIN state |-> temp[k]],
          temp |-> [k \in DOMAIN state |-> state[k]]]

\* DropLayers with the handles of the dropped map kept alive
DropLayers_keep(m, c) == c

\* DropLayers that drops the first entity of the map only
DropLayers_one(m, c) ==
    [i \in Ids |-> IF Values(m) # <<>> /\ i = Values(m)[1] THEN Freed ELSE c[i]]

\* dropping a layer map drops the only strong handle of each of its entities
DropLayers(m, c) == [i \in Ids |-> IF i \in Range(Values(m)) THEN Freed ELSE c[i]]

\* load that drops every entity that is not in the new persistent layers
load_drop_old(d, layers, c) ==
    IF d.status # "ok"
    THEN [result |-> "err", layers |-> layers, cells |-> c]
    ELSE LET t == deserialize_layers(d.layers, c)
         IN IF t.status = "panic"
            THEN [result |-> "panic", layers |-> layers, cells |-> c]
            ELSE LET r == replace(t.layers, layers)
                 IN [result |-> IF r.ok THEN "ok" ELSE "err",
                     layers |-> r.state,
                     cells |-> [i \in Ids |-> IF i \in Range(Values(r.state))
                                              THEN t.cells[i] ELSE Freed]]

\* GameState::load on the document d
load(d, layers, c) ==
    IF d.status # "ok"
    THEN [result |-> "err", layers |-> layers, cells |-> c]
    ELSE LET t == deserialize_layers(d.layers, c)
         IN IF t.status = "panic"
            THEN [result |-> "panic", layers |-> layers, cells |-> c]
            ELSE LET r == replace(t.layers, layers)
                 IN [result |-> IF r.ok THEN "ok" ELSE "err",
                     layers |-> r.state,
                     cells |-> DropLayers(r.temp, t.cells)]

\* ---------------------------------------------------------------- documents
NoLayers == [k \in {} |-> <<>>]
NoFile == [status |-> "absent", layers |-> NoLayers]
Garbage == [status |-> "garbage", layers |-> NoLayers]
Document(l) == [status |-> "ok", layers |-> l]
TP(kind, tag, refs) == [e |-> kind, tag |-> tag, refs |-> refs]

\* documents found at the load path that no save of this run has written
ForeignDocs == <<
    \* 1: not a document
    Garbage,
    \* 2: a layer missing
    Document([k \in {"objects"} |-> <<TP("PrimarySquare", 0, <<>>)>>]),
    \* 3: an extra layer
    Document([k \in {"background", "hud", "objects"} |->
                IF k = "hud" THEN <<TP("PrimarySquare", 0, <<>>)>> ELSE <<>>]),
    \* 4: a layer renamed
    Document([k \in {"background", "hud"} |->
                IF k = "hud" THEN <<TP("Follower", 0, <<TagSome(0)>>)>> ELSE <<>>]),
    \* 5: a reference to a tag no entity carries
    Document([k \in {"background", "objects"} |->
                IF k = "objects" THEN <<TP("Follower", 0, <<TagSome(5)>>)>> ELSE <<>>]),
    \* 6: a layer missing and a reference to a tag no entity carries
    Document([k \in {"objects"} |-> <<TP("Follower", 0, <<TagSome(5)>>)>>]),
    \* 7: a cycle of length 2 across layers, tags neither dense nor ordered
    Document([k \in {"background", "objects"} |->
                IF k = "objects" THEN <<TP("Follower", 3, <<TagSome(7)>>)>>
                ELSE <<TP("Follower", 7, <<TagSome(3)>>)>>]),
    \* 8: two entities carry the same tag
    Document([k \in {"background", "objects"} |->
                IF k = "objects"
                THEN <<TP("Follower", 0, <<TagSome(0)>>), TP("PrimarySquare", 0, <<>>)>>
                ELSE <<>>]),
    \* 9: fewer references than the entity declares
    Document([k \in {"background", "objects"} |->
                IF k = "objects" THEN <<TP("Follower", 0, <<>>)>> ELSE <<>>]),
    \* 10: references for an entity that declares none
    Document([k \in {"background", "objects"} |->
                IF k = "objects" THEN <<TP("PrimarySquare", 0, <<TagNone>>)>> ELSE <<>>]),
    \* 11: a dangling and an unset reference
    Document([k \in {"background", "objects"} |->
                IF k = "objects" THEN <<TP("Follower", 0, <<TagDespawned>>)>>
                ELSE <<TP("Follower", 1, <<TagNone>>)>>])
>>

\* ---------------------------------------------------------------- observation
Registered == Range(layer_names)

PersistentIds == Range(Values(persistent_layers))
VolatileIds == Range(Values(volatile_layers))

\* what a declared reference designates, by position instead of address
TopoRef(r, layers, c) ==
    CASE r.v = "None" -> [t |-> "None", k |-> "", i |-> 0]
      [] r.v = "Despawned" -> [t |-> "Despawned", k |-> "", i |-> 0]
      [] r.v = "Some" ->
            IF \E k \in DOMAIN layers : r.p \in Range(layers[k])
            THEN LET k == CHOOSE k \in DOMAIN layers : r.p \in Range(layers[k])
                 IN [t |-> "At", k |-> k,
                     i |-> CHOOSE i \in 1..Len(layers[k]) : layers[k][i] = r.p]
            ELSE [t |-> "Dangling", k |-> "", i |-> 0]

\* per layer and index: the kind of the entity and what its references designate
Topology(layers, c) ==
    [k \in DOMAIN layers |->
        [i \in 1..Len(layers[k]) |->
            [kind |-> c[layers[k][i]].kind,
             refs |-> [j \in 1..Len(save_entity_references(c[layers[k][i]])) |->
                          TopoRef(save_entity_references(c[layers[k][i]])[j], layers, c)]]]]

\* ---------------------------------------------------------------- ui
\* the UI of src/src/ui/ui.rs. A layer is the sequence of its components; a
\* component is known by its place (layer index, index in the layer)
MaxLayers == 3
MaxComponents == 2

Component == "component"

\* the layers a caller or a component may hand to the UI, the empty one included
UILayers == UNION {[1..n -> {Component}] : n \in 0..MaxComponents}

\* EventHandleResult
None == [t |-> "None", layer |-> <<>>]
RemoveLayer == [t |-> "RemoveLayer", layer |-> <<>>]
AddLayer(layer) == [t |-> "AddLayer", layer |-> layer]
ReplaceLayer(layer) == [t |-> "ReplaceLayer", layer |-> layer]
Clear == [t |-> "Clear", layer |-> <<>>]
Quit == [t |-> "Quit", layer |-> <<>>]

EventHandleResult ==
    {None, RemoveLayer, Clear, Quit}
    \cup {AddLayer(l) : l \in UILayers} \cup {ReplaceLayer(l) : l \in UILayers}

\* the events that matter to UI::process: a change of the window size, the
\* left mouse button, anything else
WindowSizes == {"small", "large"}
Events ==
    {[t |-> "SizeChanged", size |-> s] : s \in WindowSizes}
    \cup {[t |-> x, size |-> "small"] : x \in {"MouseButtonDown", "MouseButtonUp", "Other"}}

\* the update of the shared UIState at the start of process
UIState(state, ev) ==
    CASE ev.t = "SizeChanged" -> [state EXCEPT !.window_size = ev.size]
      [] ev.t = "MouseButtonDown" -> [state EXCEPT !.button_down = TRUE]
      [] ev.t = "MouseButtonUp" -> [state EXCEPT !.button_down = FALSE]
      [] OTHER -> state

\* add_modify_prior_layer that pushes an empty layer as well
add_modify_prior_layer_any(layers, layer) == Append(layers, layer)

\* UI::add_modify_prior_layer: an empty layer is not pushed
add_modify_prior_layer(layers, layer) ==
    IF layer = <<>> THEN layers ELSE Append(layers, layer)

\* Vec::pop
pop(layers) == IF layers = <<>> THEN layers ELSE SubSeq(layers, 1, Len(layers) - 1)

\* the layer process hands the event to, taken from the front of the stack
last_mut_front(layers) == 1

\* self.layers.last_mut(): the index of the backmost layer
last_mut(layers) == Len(layers)

RECURSIVE Offer(_, _, _)
\* the loop over the components of the backmost layer from index i on: rs[i]
\* is what component i returns when the event is handed to it; the loop ends
\* at the first result that is not None
Offer(rs, i, n) ==
    IF i > n THEN [offered |-> <<>>, result |-> None]
    ELSE IF rs[i] = None
         THEN LET t == Offer(rs, i + 1, n)
              IN [offered |-> <<i>> \o t.offered, result |-> t.result]
         ELSE [offered |-> <<i>>, result |-> rs[i]]

\* the match on the result of the consumed event
Consume(result, layers) ==
    CASE result.t = "None" -> layers
      [] result.t = "Clear" -> <<>>
      [] result.t = "Quit" -> layers
      [] result.t = "RemoveLayer" -> pop(layers)
      [] result.t = "AddLayer" ->
            IF result.layer # <<>> THEN add_modify_prior_layer(layers, result.layer)
            ELSE layers
      [] result.t = "ReplaceLayer" ->
            IF result.layer # <<>>
            THEN add_modify_prior_layer(pop(layers), result.layer)
            ELSE pop(layers)

\* UI::new
NewUI ==
    [layers |-> <<>>,
     state |-> [button_down |-> FALSE, window_size |-> "small"],
     op |-> "new",
     offered |-> <<>>,
     result |-> None,
     ret |-> TRUE,
     asserted |-> TRUE]

\* ---------------------------------------------------------------- fonts
\* the FontManager of src/src/ui/font_manager.rs. A font is known by the
\* number of the load that made it; its strong count is the number of
\* FontWrappers that hold it
MaxFonts == 3
MaxWrappers == 2

FontKeys == {"a.ttf-12", "b.ttf-12"}
FontIds == 1..MaxFonts
NoFont == 0

\* BTreeMap::new(): no key has an entry
NoCache == [k \in FontKeys |-> NoFont]

\* FontManager::new
NewFonts ==
    [cache |-> NoCache,
     count |-> [f \in FontIds |-> 0],
     key |-> [f \in FontIds |-> "none"],
     loads |-> 0,
     op |-> "new",
     arg |-> "none",
     font |-> NoFont,
     loaded |-> FALSE,
     panicked |-> FALSE]

\* Rc::strong_count of a font
font_strong_count(fm, f) == fm.count[f]

\* FontManager::remove: self.cache.take() leaves an empty map in the Cell;
\* the key is removed from the map taken out, which is dropped when remove
\* returns
remove(cache, key) == NoCache

\* ---------------------------------------------------------------- state
EmptyLayers == [k \in Registered |-> <<>>]
NoFrame == [persistent |-> EmptyLayers, volatile |-> EmptyLayers, inserted |-> {}]
NoHeld == [id |-> 0, obj |-> NoBox]
Op(op, result, doc) == [op |-> op, result |-> result, doc |-> doc]
InRun == Op("run", "none", 0)

\* GameState::new
Init ==
    /\ persistent_layers = EmptyLayers
    /\ volatile_layers = EmptyLayers
    /\ cells = [i \in Ids |-> Freed]
    /\ pc = "events"
    /\ todo = <<>>
    /\ sub = "idle"
    /\ e = NoBox
    /\ held = NoHeld
    /\ res = <<>>
    /\ persistent_spawn = <<>>
    /\ volatile_spawn = <<>>
    /\ file = NoFile
    /\ last = Op("new", "ok", 0)
    /\ calls = [i \in Ids |-> 0]
    /\ frame = NoFrame
    /\ saved = Topology(EmptyLayers, [i \in Ids |-> Freed])
    /\ ui = NewUI
    /\ fonts = NewFonts

runner == <<pc, todo, sub, e, held, res, persistent_spawn, volatile_spawn, calls, frame>>

\* a panic ends the process
Panic(op, doc) ==
    /\ pc' = "panicked"
    /\ last' = Op(op, "panic", doc)
    /\ UNCHANGED <<persistent_layers, volatile_layers, cells, todo, sub, e, held, res,
                   persistent_spawn, volatile_spawn, file, calls, frame, saved>>

\* ---------------------------------------------------------------- operations
\* the operations the event handler (or the caller of run) may invoke; spawns
\* and clears are invoked from the event handler, save and load by the caller
\* once run has returned (as main of examples/0_hello.rs saves on exit)

spawn_persistent(obj, layer) ==
    /\ pc = "events"
    /\ Len(Values(persistent_layers)) < MaxPersistent
    /\ IF layer \notin DOMAIN persistent_layers
       THEN Panic("spawn_persistent", 0)
       ELSE LET id == NewIds(cells, 1)[1]
            IN /\ Settle([persistent_layers EXCEPT ![layer] = Append(@, id)],
                         volatile_layers,
                         [cells EXCEPT ![id] = obj])
               /\ last' = Op("spawn_persistent", "ok", 0)
               /\ UNCHANGED <<file, saved, runner>>

spawn_volatile(obj, layer) ==
    /\ pc = "events"
    /\ Len(Values(volatile_layers)) < MaxVolatile
    /\ IF layer \notin DOMAIN volatile_layers
       THEN Panic("spawn_volatile", 0)
       ELSE LET id == NewIds(cells, 1)[1]
            IN /\ Settle(persistent_layers,
                         [volatile_layers EXCEPT ![layer] = Append(@, id)],
                         [cells EXCEPT ![id] = obj])
               /\ last' = Op("spawn_volatile", "ok", 0)
               /\ UNCHANGED <<file, saved, runner>>

\* clear_persistent that clears the volatile layers as well
clear_persistent_all ==
    /\ pc \in {"events", "returned"}
    /\ Settle([k \in DOMAIN persistent_layers |-> <<>>],
              [k \in DOMAIN volatile_layers |-> <<>>],
              DropLayers(volatile_layers, DropLayers(persistent_layers, cells)))
    /\ last' = Op("clear_persistent", "ok", 0)
    /\ UNCHANGED <<file, saved, runner>>

\* GameState::clear_persistent
clear_persistent ==
    /\ pc \in {"events", "returned"}
    /\ Settle([k \in DOMAIN persistent_layers |-> <<>>],
              volatile_layers,
              DropLayers(persistent_layers, cells))
    /\ last' = Op("clear_persistent", "ok", 0)
    /\ UNCHANGED <<file, saved, runner>>

clear ==
    /\ pc \in {"events", "returned"}
    /\ Settle([k \in DOMAIN persistent_layers |-> <<>>],
              [k \in DOMAIN volatile_layers |-> <<>>],
              DropLayers(volatile_layers, DropLayers(persistent_layers, cells)))
    /\ last' = Op("clear", "ok", 0)
    /\ UNCHANGED <<file, saved, runner>>

\* a forwarder that takes the Box and does not put it back
Restored_none(c, id) == [c EXCEPT ![id] = NoneCell]

\* the cell of id after a forwarder that only reads the entity
\* (save_entity_references, TaggedPersistent::serialize): take().unwrap(),
\* the call on &e, set(Some(e))
Restored(c, id) == [[c EXCEPT ![id] = NoneCell] EXCEPT ![id] = c[id]]

RECURSIVE Visited(_, _)
\* the cells after both passes of a save over the entities ids
Visited(ids, c) ==
    IF ids = <<>> THEN c ELSE Visited(Tail(ids), Restored(c, Head(ids)))

\* GameState::save; the document replaces the file
save ==
    /\ pc = "returned"
    /\ LET d == serialize_layers(persistent_layers, cells)
       IN IF d.status = "panic"
          THEN Panic("save", 0)
          ELSE /\ file' = d
               /\ saved' = Topology(persistent_layers, cells)
               /\ cells' = Visited(Values(persistent_layers), cells)
               /\ last' = Op("save", "ok", 0)
               /\ UNCHANGED <<persistent_layers, volatile_layers, runner>>

\* File::create fails
save_io_error ==
    /\ pc = "returned"
    /\ last' = Op("save", "err", 0)
    /\ UNCHANGED <<persistent_layers, volatile_layers, cells, file, saved, runner>>

\* GameState::save fails while the payload of the n-th entity is written
\* (serialize_field("e", &e)? returns the error of the writer or of the
\* entity): the entities before it are back in their cells, the Box of the
\* n-th one is dropped with the early return, the file holds a truncated
\* document
save_payload_error ==
    /\ pc = "returned"
    /\ \E n \in 1..Len(Values(persistent_layers)) :
          IF serialize_layers(persistent_layers, cells).status = "panic"
          THEN Panic("save", 0)
          ELSE /\ Settle(persistent_layers, volatile_layers,
                         [cells EXCEPT ![Values(persistent_layers)[n]] = NoneCell])
               /\ file' = Garbage
               /\ last' = Op("save", "err", 0)
               /\ UNCHANGED <<saved, runner>>

Size(d) == Len(Values(d.layers))

LoadDoc(d, n) ==
    /\ pc = "returned"
    /\ Size(d) <= MaxPersistent
    /\ Size(d) <= Cardinality(FreeIds(cells))
    /\ LET r == load(d, persistent_layers, cells)
       IN IF r.result = "panic"
          THEN Panic("load", n)
          ELSE /\ Settle(r.layers, volatile_layers, r.cells)
               /\ last' = Op("load", r.result, n)
               /\ UNCHANGED <<file, saved, runner>>

\* GameState::load of the file the last save wrote (or of no file)
load_file == LoadDoc(file, 0)

\* GameState::load of a file from elsewhere
load_foreign == \E n \in 1..Len(ForeignDocs) : LoadDoc(ForeignDocs[n], n)

\* ---------------------------------------------------------------- run
Pos(m, k, i) == [m |-> m, k |-> k, i |-> i]

RECURSIVE PosSeq(_, _, _, _)
\* the positions of the layers ks of map m, by index (rev: from the last down)
PosSeq(m, layers, ks, rev) ==
    IF ks = <<>> THEN <<>>
    ELSE LET k == Head(ks)
             n == Len(layers[k])
         IN [i \in 1..n |-> Pos(m, k, IF rev THEN n + 1 - i ELSE i)]
            \o PosSeq(m, layers, Tail(ks), rev)

\* UpdateOrder without the volatile layers
UpdateOrder_persistent_only(rev) ==
    PosSeq("persistent", persistent_layers, Keys(persistent_layers), rev)

\* UpdateOrder that goes from the first index up in every phase
UpdateOrder_forward(rev) ==
    PosSeq("persistent", persistent_layers, Keys(persistent_layers), FALSE)
    \o PosSeq("volatile", volatile_layers, Keys(volatile_layers), FALSE)

\* .values() of the persistent layers, then of the volatile layers
UpdateOrder(rev) ==
    PosSeq("persistent", persistent_layers, Keys(persistent_layers), rev)
    \o PosSeq("volatile", volatile_layers, Keys(volatile_layers), rev)

RECURSIVE RenderSeq_persistent_first(_, _, _)
\* RenderSeq with the persistent entities of a layer before the volatile ones
RenderSeq_persistent_first(names, pl, vl) ==
    IF names = <<>> THEN <<>>
    ELSE PosSeq("persistent", pl, <<Head(names)>>, FALSE)
         \o PosSeq("volatile", vl, <<Head(names)>>, FALSE)
         \o RenderSeq_persistent_first(Tail(names), pl, vl)

RECURSIVE RenderSeq(_, _, _)
\* layer_names order; in a layer the volatile entities, then the persistent
RenderSeq(names, pl, vl) ==
    IF names = <<>> THEN <<>>
    ELSE PosSeq("volatile", vl, <<Head(names)>>, FALSE)
         \o PosSeq("persistent", pl, <<Head(names)>>, FALSE)
         \o RenderSeq(Tail(names), pl, vl)

EntityAt(pos) ==
    IF pos.m = "persistent" THEN persistent_layers[pos.k][pos.i]
    ELSE volatile_layers[pos.k][pos.i]

UpdatePhases == {"generate_rate", "apply_rate", "apply_spawns"}

\* the event handler returned Ok(true) for every pending event: first phase
StartFrame ==
    /\ pc = "events"
    /\ pc' = "generate_rate"
    /\ todo' = UpdateOrder(FALSE)
    /\ calls' = [i \in Ids |-> 0]
    /\ frame' = [persistent |-> persistent_layers, volatile |-> volatile_layers,
                 inserted |-> {}]
    /\ last' = InRun
    /\ UNCHANGED <<persistent_layers, volatile_layers, cells, sub, e, held, res,
                   persistent_spawn, volatile_spawn, file, saved>>

\* the event handler returned Ok(false): run returns Ok
HandlerStop ==
    /\ pc = "events"
    /\ pc' = "returned"
    /\ last' = Op("run", "ok", 0)
    /\ UNCHANGED <<persistent_layers, volatile_layers, cells, todo, sub, e, held, res,
                   persistent_spawn, volatile_spawn, file, calls, frame, saved>>

\* HandlerErr with the error of the handler dropped: the events go on
HandlerErr_ignored ==
    /\ pc = "events"
    /\ pc' = "events"
    /\ last' = Op("run", "err", 0)
    /\ UNCHANGED <<persistent_layers, volatile_layers, cells, todo, sub, e, held, res,
                   persistent_spawn, volatile_spawn, file, calls, frame, saved>>

\* the event handler returned Err: run returns it
HandlerErr ==
    /\ pc = "events"
    /\ pc' = "returned"
    /\ last' = Op("run", "err", 0)
    /\ UNCHANGED <<persistent_layers, volatile_layers, cells, todo, sub, e, held, res,
                   persistent_spawn, volatile_spawn, file, calls, frame, saved>>

\* Take that passes over an entity whose cell is empty
Take_skip ==
    /\ pc \in UpdatePhases
    /\ sub = "idle"
    /\ todo # <<>>
    /\ LET id == EntityAt(Head(todo))
       IN IF cells[id] = NoneCell
          THEN /\ todo' = Tail(todo)
               /\ last' = InRun
               /\ UNCHANGED <<persistent_layers, volatile_layers, cells, pc, sub, e, held,
                              res, persistent_spawn, volatile_spawn, file, calls, frame,
                              saved>>
          ELSE /\ e' = cells[id]
               /\ cells' = [cells EXCEPT ![id] = NoneCell]
               /\ sub' = "cb"
               /\ res' = <<>>
               /\ last' = InRun
               /\ UNCHANGED <<persistent_layers, volatile_layers, pc, todo, held,
                              persistent_spawn, volatile_spawn, file, calls, frame, saved>>

\* self.0.take().unwrap() at the start of a forwarding function
Take ==
    /\ pc \in UpdatePhases
    /\ sub = "idle"
    /\ todo # <<>>
    /\ LET id == EntityAt(Head(todo))
       IN IF cells[id] = NoneCell
          THEN Panic("run", 0)
          ELSE /\ e' = cells[id]
               /\ cells' = [cells EXCEPT ![id] = NoneCell]
               /\ sub' = "cb"
               /\ res' = <<>>
               /\ last' = InRun
               /\ UNCHANGED <<persistent_layers, volatile_layers, pc, todo, held,
                              persistent_spawn, volatile_spawn, file, calls, frame, saved>>

\* get with an empty cell reported like a freed allocation
get_conflated(c, id) ==
    IF ~upgrade(c, id) \/ c[id] = NoneCell
    THEN [r |-> "Despawned", held |-> NoHeld, cells |-> c]
    ELSE [r |-> "Some", held |-> [id |-> id, obj |-> c[id]],
          cells |-> [c EXCEPT ![id] = NoneCell]]

\* get that reads the cell and leaves the value in it
get_no_take(c, id) ==
    IF ~upgrade(c, id) THEN [r |-> "Despawned", held |-> NoHeld, cells |-> c]
    ELSE IF c[id] = NoneCell THEN [r |-> "Taken", held |-> NoHeld, cells |-> c]
    ELSE [r |-> "Some", held |-> [id |-> id, obj |-> c[id]], cells |-> c]

\* PersistentRef::get
get(c, id) ==
    IF ~upgrade(c, id) THEN [r |-> "Despawned", held |-> NoHeld, cells |-> c]
    ELSE IF c[id] = NoneCell THEN [r |-> "Taken", held |-> NoHeld, cells |-> c]
    ELSE [r |-> "Some", held |-> [id |-> id, obj |-> c[id]],
          cells |-> [c EXCEPT ![id] = NoneCell]]

\* set that drops the Box instead of storing it
set_drop(c, h) == c

\* PersistentRef::set
set(c, h) == [c EXCEPT ![h.id] = h.obj]

\* inside generate_rate: the entity picks an entity of the registry to follow
CbSetFollowee ==
    /\ pc = "generate_rate"
    /\ sub = "cb"
    /\ e.kind = "Follower"
    /\ res = <<>>
    /\ \E t \in PersistentIds :
          /\ e.followee # RefSome(t)
          /\ e' = Follower(RefSome(t))
    /\ last' = InRun
    /\ UNCHANGED <<persistent_layers, volatile_layers, cells, pc, todo, sub, held, res,
                   persistent_spawn, volatile_spawn, file, calls, frame, saved>>

\* inside a callback: the entity resolves its reference (a second time only
\* while it still holds what the first resolution gave it)
CbGet ==
    /\ pc \in UpdatePhases
    /\ sub = "cb"
    /\ e.followee.v = "Some"
    /\ \/ res = <<>>
       \/ Len(res) = 1 /\ held # NoHeld
    /\ LET g == get(cells, e.followee.p)
       IN /\ res' = Append(res, g.r)
          /\ cells' = g.cells
          /\ held' = IF g.r = "Some" THEN g.held ELSE held
    /\ last' = InRun
    /\ UNCHANGED <<persistent_layers, volatile_layers, pc, todo, sub, e,
                   persistent_spawn, volatile_spawn, file, calls, frame, saved>>

\* inside a callback: the entity gives back what it got
CbSet ==
    /\ pc \in UpdatePhases
    /\ sub = "cb"
    /\ held # NoHeld
    /\ cells' = set(cells, held)
    /\ held' = NoHeld
    /\ last' = InRun
    /\ UNCHANGED <<persistent_layers, volatile_layers, pc, todo, sub, e, res,
                   persistent_spawn, volatile_spawn, file, calls, frame, saved>>

\* inside a callback that breaks the rule of PersistentRef::get ("if Some is
\* returned, it must be followed by a corresponding call to set"): the Box it
\* got is dropped, the cell stays empty
CbDrop ==
    /\ pc \in UpdatePhases
    /\ sub = "cb"
    /\ held # NoHeld
    /\ held' = NoHeld
    /\ last' = InRun
    /\ UNCHANGED <<persistent_layers, volatile_layers, cells, pc, todo, sub, e, res,
                   persistent_spawn, volatile_spawn, file, calls, frame, saved>>

\* inside a callback: PersistentRef::set on the cell of another entity that
\* holds its entity, with a handle built from an upgraded weak handle (the
\* field of PersistentEntity is public) and a new Box
CbSetOccupied ==
    /\ pc \in UpdatePhases
    /\ sub = "cb"
    /\ e.followee.v = "Some"
    /\ e.followee.p \in PersistentIds
    /\ cells[e.followee.p].kind \in PersistentKinds
    /\ cells[e.followee.p] # PrimarySquare
    /\ cells' = set(cells, [id |-> e.followee.p, obj |-> PrimarySquare])
    /\ last' = Op("set", "ok", 0)
    /\ UNCHANGED <<persistent_layers, volatile_layers, pc, todo, sub, e, held, res,
                   persistent_spawn, volatile_spawn, file, calls, frame, saved>>

\* self.0.set(Some(e)) at the end of generate_rate and of apply_rate
Restore ==
    /\ pc \in {"generate_rate", "apply_rate"}
    /\ sub = "cb"
    /\ held = NoHeld
    /\ LET id == EntityAt(Head(todo))
       IN /\ cells' = [cells EXCEPT ![id] = e]
          /\ calls' = [calls EXCEPT ![id] = IF pc = "generate_rate" THEN 1 ELSE 2]
    /\ todo' = Tail(todo)
    /\ sub' = "idle"
    /\ e' = NoBox
    /\ res' = <<>>
    /\ last' = InRun
    /\ UNCHANGED <<persistent_layers, volatile_layers, pc, held,
                   persistent_spawn, volatile_spawn, file, frame, saved>>

\* NextPhase with the third phase started right after the first
NextPhase_skip ==
    /\ pc \in {"generate_rate", "apply_rate"}
    /\ sub = "idle"
    /\ todo = <<>>
    /\ pc' = "apply_spawns"
    /\ todo' = UpdateOrder(TRUE)
    /\ last' = InRun
    /\ UNCHANGED <<persistent_layers, volatile_layers, cells, sub, e, held, res,
                   persistent_spawn, volatile_spawn, file, calls, frame, saved>>

\* a phase has visited every entity: the next phase starts
NextPhase ==
    /\ pc \in {"generate_rate", "apply_rate"}
    /\ sub = "idle"
    /\ todo = <<>>
    /\ pc' = IF pc = "generate_rate" THEN "apply_rate" ELSE "apply_spawns"
    /\ todo' = UpdateOrder(pc = "apply_rate")
    /\ last' = InRun
    /\ UNCHANGED <<persistent_layers, volatile_layers, cells, sub, e, held, res,
                   persistent_spawn, volatile_spawn, file, calls, frame, saved>>

\* ---------------------------------------------------------------- spawns
Request(layer, spawns) == [layer |-> layer, spawns |-> spawns]

\* layers an entity may name in a spawn request ("hud" is not registered)
SpawnLayers == Registered \cup {"hud"}

RECURSIVE Pending(_)
\* number of entities requested by a list of spawn requests
Pending(spawns) ==
    IF spawns = <<>> THEN 0 ELSE Len(Head(spawns).spawns) + Pending(Tail(spawns))

\* what apply_spawns of an entity may return
SpawnChanges(obj) ==
    [alive : {"Retain", "Despawn"},
     persistent_spawns :
        IF obj.kind \in PersistentKinds
        THEN {<<>>} \cup {<<Request(l, <<o>>)>> :
                            l \in SpawnLayers, o \in {Follower(RefNone), PrimarySquare}}
        ELSE {<<>>},
     volatile_spawns :
        {<<>>} \cup {<<Request(l, <<PrimarySquareTail>>)>> : l \in SpawnLayers}]

\* the SpawnChanges an apply_spawns call returned, as the runner sees it:
\* the status and the number of entities requested
Reported(r) ==
    Op("apply_spawns", r.alive, Pending(r.persistent_spawns) + Pending(r.volatile_spawns))

\* ApplySpawns with the requests of an entity that reports Despawn lost
ApplySpawns_lost ==
    /\ pc = "apply_spawns"
    /\ sub = "cb"
    /\ held = NoHeld
    /\ \E r \in SpawnChanges(e) :
          LET pos == Head(todo)
              id == EntityAt(pos)
              despawn == r.alive = "Despawn"
          IN /\ cells' = [cells EXCEPT ![id] = IF despawn THEN Freed ELSE e]
             /\ persistent_layers' =
                    IF despawn /\ pos.m = "persistent"
                    THEN [persistent_layers EXCEPT ![pos.k] = Remove(@, pos.i)]
                    ELSE persistent_layers
             /\ volatile_layers' =
                    IF despawn /\ pos.m = "volatile"
                    THEN [volatile_layers EXCEPT ![pos.k] = Remove(@, pos.i)]
                    ELSE volatile_layers
             /\ persistent_spawn' =
                    IF despawn THEN persistent_spawn
                    ELSE persistent_spawn \o r.persistent_spawns
             /\ volatile_spawn' =
                    IF despawn THEN volatile_spawn
                    ELSE volatile_spawn \o r.volatile_spawns
             /\ calls' = [calls EXCEPT ![id] = IF despawn THEN 0 ELSE 3]
             /\ Len(Values(persistent_layers')) + Pending(persistent_spawn') <= MaxPersistent
             /\ Len(Values(volatile_layers')) + Pending(volatile_spawn') <= MaxVolatile
             /\ last' = Reported(r)
    /\ todo' = Tail(todo)
    /\ sub' = "idle"
    /\ e' = NoBox
    /\ res' = <<>>
    /\ UNCHANGED <<pc, held, file, frame, saved>>

\* the body of the reverse loops of the third phase, after the take:
\* set(Some(e)), layer.remove(i) on Despawn, then the requests are collected
ApplySpawns ==
    /\ pc = "apply_spawns"
    /\ sub = "cb"
    /\ held = NoHeld
    /\ \E r \in SpawnChanges(e) :
          LET pos == Head(todo)
              id == EntityAt(pos)
              despawn == r.alive = "Despawn"
          IN /\ cells' = [cells EXCEPT ![id] = IF despawn THEN Freed ELSE e]
             /\ persistent_layers' =
                    IF despawn /\ pos.m = "persistent"
                    THEN [persistent_layers EXCEPT ![pos.k] = Remove(@, pos.i)]
                    ELSE persistent_layers
             /\ volatile_layers' =
                    IF despawn /\ pos.m = "volatile"
                    THEN [volatile_layers EXCEPT ![pos.k] = Remove(@, pos.i)]
                    ELSE volatile_layers
             /\ persistent_spawn' = persistent_spawn \o r.persistent_spawns
             /\ volatile_spawn' = volatile_spawn \o r.volatile_spawns
             /\ calls' = [calls EXCEPT ![id] = IF despawn THEN 0 ELSE 3]
             /\ Len(Values(persistent_layers')) + Pending(persistent_spawn') <= MaxPersistent
             /\ Len(Values(volatile_layers')) + Pending(volatile_spawn') <= MaxVolatile
             /\ last' = Reported(r)
    /\ todo' = Tail(todo)
    /\ sub' = "idle"
    /\ e' = NoBox
    /\ res' = <<>>
    /\ UNCHANGED <<pc, held, file, frame, saved>>

RECURSIVE InsertAll_skip(_, _, _)
\* InsertAll with the requests for an unregistered layer dropped
InsertAll_skip(spawns, layers, c) ==
    IF spawns = <<>> THEN [ok |-> TRUE, layers |-> layers, cells |-> c, ids |-> {}]
    ELSE LET s == Head(spawns)
         IN IF s.layer \notin DOMAIN layers
            THEN InsertAll_skip(Tail(spawns), layers, c)
            ELSE LET ids == NewIds(c, Len(s.spawns))
                     c2 == [i \in Ids |->
                              IF \E n \in 1..Len(ids) : ids[n] = i
                              THEN s.spawns[CHOOSE n \in 1..Len(ids) : ids[n] = i]
                              ELSE c[i]]
                     rest == InsertAll_skip(Tail(spawns),
                                            [layers EXCEPT ![s.layer] = @ \o ids], c2)
                 IN [rest EXCEPT !.ids = @ \cup Range(ids)]

\* InsertAll with every request after the first one dropped
InsertAll_first(spawns, layers, c) ==
    IF spawns = <<>> THEN [ok |-> TRUE, layers |-> layers, cells |-> c, ids |-> {}]
    ELSE LET s == Head(spawns)
         IN IF s.layer \notin DOMAIN layers
            THEN [ok |-> FALSE, layers |-> layers, cells |-> c, ids |-> {}]
            ELSE LET ids == NewIds(c, Len(s.spawns))
                     c2 == [i \in Ids |->
                              IF \E n \in 1..Len(ids) : ids[n] = i
                              THEN s.spawns[CHOOSE n \in 1..Len(ids) : ids[n] = i]
                              ELSE c[i]]
                 IN [ok |-> TRUE, layers |-> [layers EXCEPT ![s.layer] = @ \o ids],
                     cells |-> c2, ids |-> Range(ids)]

RECURSIVE InsertAll(_, _, _)
\* the "new spawns" loop over one list of requests; ok = FALSE is the expect
\* on an unregistered layer
InsertAll(spawns, layers, c) ==
    IF spawns = <<>> THEN [ok |-> TRUE, layers |-> layers, cells |-> c, ids |-> {}]
    ELSE LET s == Head(spawns)
         IN IF s.layer \notin DOMAIN layers
            THEN [ok |-> FALSE, layers |-> layers, cells |-> c, ids |-> {}]
            ELSE LET ids == NewIds(c, Len(s.spawns))
                     c2 == [i \in Ids |->
                              IF \E n \in 1..Len(ids) : ids[n] = i
                              THEN s.spawns[CHOOSE n \in 1..Len(ids) : ids[n] = i]
                              ELSE c[i]]
                     rest == InsertAll(Tail(spawns),
                                       [layers EXCEPT ![s.layer] = @ \o ids], c2)
                 IN [rest EXCEPT !.ids = @ \cup Range(ids)]

\* the third phase has visited every entity: the collected spawns are appended
\* to their layers, persistent requests first
Insertion ==
    /\ pc = "apply_spawns"
    /\ sub = "idle"
    /\ todo = <<>>
    /\ LET p == InsertAll(persistent_spawn, persistent_layers, cells)
           v == InsertAll(volatile_spawn, volatile_layers, p.cells)
       IN IF ~p.ok \/ ~v.ok
          THEN Panic("run", 0)
          ELSE /\ persistent_layers' = p.layers
               /\ volatile_layers' = v.layers
               /\ cells' = v.cells
               /\ persistent_spawn' = <<>>
               /\ volatile_spawn' = <<>>
               /\ calls' = [i \in Ids |-> IF i \in p.ids \cup v.ids THEN 0 ELSE calls[i]]
               /\ frame' = [frame EXCEPT !.inserted = p.ids \cup v.ids]
               /\ pc' = "render"
               /\ todo' = RenderSeq(layer_names, p.layers, v.layers)
               /\ last' = InRun
               /\ UNCHANGED <<sub, e, held, res, file, saved>>

\* render of one entity: take, render, set
Render ==
    /\ pc = "render"
    /\ todo # <<>>
    /\ IF cells[EntityAt(Head(todo))] = NoneCell
       THEN Panic("run", 0)
       ELSE /\ todo' = Tail(todo)
            /\ last' = InRun
            /\ UNCHANGED <<persistent_layers, volatile_layers, cells, pc, sub, e, held,
                           res, persistent_spawn, volatile_spawn, file, calls, frame,
                           saved>>

\* everything is rendered: the frame ends and events are polled again
EndFrame ==
    /\ pc = "render"
    /\ todo = <<>>
    /\ pc' = "events"
    /\ Settle(persistent_layers, volatile_layers, cells)
    /\ calls' = [i \in Ids |-> 0]
    /\ frame' = NoFrame
    /\ last' = InRun
    /\ UNCHANGED <<todo, sub, e, held, res, persistent_spawn, volatile_spawn, file, saved>>

Spawn ==
    \/ \E o \in {Follower(RefNone), PrimarySquare}, l \in SpawnLayers :
          spawn_persistent(o, l)
    \/ \E l \in SpawnLayers : spawn_volatile(PrimarySquareTail, l)

\* the game does not touch the UI and the fonts
Apart == UNCHANGED <<ui, fonts>>

Next ==
    \/ Spawn /\ Apart
    \/ clear_persistent /\ Apart
    \/ clear /\ Apart
    \/ save /\ Apart
    \/ save_io_error /\ Apart
    \/ load_file /\ Apart
    \/ load_foreign /\ Apart
    \/ StartFrame /\ Apart
    \/ HandlerStop /\ Apart
    \/ HandlerErr /\ Apart
    \/ Take /\ Apart
    \/ CbSetFollowee /\ Apart
    \/ CbGet /\ Apart
    \/ CbSet /\ Apart
    \/ Restore /\ Apart
    \/ NextPhase /\ Apart
    \/ ApplySpawns /\ Apart
    \/ Insertion /\ Apart
    \/ Render /\ Apart
    \/ EndFrame /\ Apart

\* Next, and saves that fail after the file was created
NextIO == Next \/ (save_payload_error /\ Apart)

\* NextIO, and callbacks that do not keep to the rules of get and set
NextFaults == NextIO \/ (CbDrop /\ Apart) \/ (CbSetOccupied /\ Apart)

\* ---------------------------------------------------------------- ui calls
\* UI::add
add ==
    /\ ui.asserted
    /\ Len(ui.layers) < MaxLayers
    /\ \E layer \in UILayers :
          ui' = [ui EXCEPT !.layers = add_modify_prior_layer(@, layer),
                           !.op = "add",
                           !.offered = <<>>,
                           !.result = None]
    /\ UNCHANGED <<game_vars, fonts>>

\* UI::process on the event ev, with rs[i] the answer of component i of the
\* backmost layer; the debug assertion, the update of the UIState, the loop
\* over the components and the match on the result
process ==
    /\ ui.asserted
    /\ \E ev \in Events, rs \in [1..MaxComponents -> EventHandleResult] :
          IF ui.layers # <<>> /\ ui.layers[Len(ui.layers)] = <<>>
          THEN ui' = [ui EXCEPT !.op = "process", !.asserted = FALSE]
          ELSE IF ui.layers = <<>>
          THEN ui' = [ui EXCEPT !.state = UIState(@, ev),
                                !.op = "process",
                                !.offered = <<>>,
                                !.result = None,
                                !.ret = TRUE]
          ELSE LET at == last_mut(ui.layers)
                   o == Offer(rs, 1, Len(ui.layers[at]))
               IN /\ Len(Consume(o.result, ui.layers)) <= MaxLayers
                  /\ ui' = [layers |-> Consume(o.result, ui.layers),
                            state |-> UIState(ui.state, ev),
                            op |-> "process",
                            offered |-> [n \in 1..Len(o.offered) |->
                                           [layer |-> at,
                                            index |-> o.offered[n],
                                            r |-> rs[o.offered[n]]]],
                            result |-> o.result,
                            ret |-> o.result.t # "Quit",
                            asserted |-> TRUE]
    /\ UNCHANGED <<game_vars, fonts>>

NextUI == add \/ process

SpecUI == Init /\ [][NextUI]_vars

\* ---------------------------------------------------------------- font calls
\* FontManager::get; the unwrap of a failed upgrade is a panic
font_get(k) ==
    /\ ~fonts.panicked
    /\ IF fonts.cache[k] # NoFont
       THEN LET f == fonts.cache[k]
            IN IF font_strong_count(fonts, f) = 0
               THEN fonts' = [fonts EXCEPT !.op = "get", !.arg = k, !.panicked = TRUE]
               ELSE /\ fonts.count[f] < MaxWrappers
                    /\ fonts' = [fonts EXCEPT !.count[f] = @ + 1,
                                              !.op = "get",
                                              !.arg = k,
                                              !.font = f,
                                              !.loaded = FALSE]
       ELSE /\ fonts.loads < MaxFonts
            /\ LET f == fonts.loads + 1
               IN fonts' = [fonts EXCEPT !.cache[k] = f,
                                         !.count[f] = 1,
                                         !.key[f] = k,
                                         !.loads = f,
                                         !.op = "get",
                                         !.arg = k,
                                         !.font = f,
                                         !.loaded = TRUE]
    /\ UNCHANGED <<game_vars, ui>>

\* Drop for FontWrapper, of a wrapper that holds the font f
drop(f) ==
    /\ ~fonts.panicked
    /\ fonts.count[f] > 0
    /\ fonts' = [fonts EXCEPT !.cache = IF font_strong_count(fonts, f) = 1
                                        THEN remove(@, fonts.key[f]) ELSE @,
                              !.count[f] = @ - 1,
                              !.op = "drop",
                              !.arg = fonts.key[f],
                              !.font = f,
                              !.loaded = FALSE]
    /\ UNCHANGED <<game_vars, ui>>

NextFont ==
    \/ \E k \in FontKeys : font_get(k)
    \/ \E f \in FontIds : drop(f)

SpecFont == Init /\ [][NextFont]_vars

SpecFaults == Init /\ [][NextFaults]_vars

SpecIO == Init /\ [][NextIO]_vars

Spec == Init /\ [][Next]_vars

\* ---------------------------------------------------------------- properties
\* the registry has just been loaded from the document of the last save
LoadedSaved == last = Op("load", "ok", 0)

NoPlace(t) == [t |-> t, k |-> "", i |-> 0]
Place(k, i) == [t |-> "At", k |-> k, i |-> i]

\* what a saved topology is expected to be after a load: a reference whose
\* target was gone at the save comes back as the despawned marker
Expected(topo) ==
    [k \in DOMAIN topo |->
        [i \in 1..Len(topo[k]) |->
            [kind |-> topo[k][i].kind,
             refs |-> [j \in 1..Len(topo[k][i].refs) |->
                          IF topo[k][i].refs[j].t = "Dangling"
                          THEN NoPlace("Despawned")
                          ELSE topo[k][i].refs[j]]]]]

\* C1: round trip. After a save and a load of the saved document, every layer
\* holds as many entities as at the save, of the same kinds in the same order,
\* and every declared reference is unset, despawned, or designates the entity
\* at the same (layer, index) as at the save.
C1_RoundTrip ==
    LoadedSaved => Topology(persistent_layers, cells) = Expected(saved)

\* a loaded cycle of length 2 between entities of two different layers
C1_Witness ==
    /\ LoadedSaved
    /\ \E a \in PersistentIds, b \in PersistentIds :
          /\ a # b
          /\ cells[a].followee = RefSome(b)
          /\ cells[b].followee = RefSome(a)
    /\ Len(persistent_layers["objects"]) = 1

\* C2: dangling references are preserved. A reference whose target was
\* despawned before the save is written as Tag::Despawned, and after the load
\* the entity at that place holds the despawned marker: it is neither unset
\* nor a handle to any entity.
C2_DanglingPreserved ==
    \A k \in DOMAIN saved : \A i \in 1..Len(saved[k]) :
        \A j \in 1..Len(saved[k][i].refs) :
            saved[k][i].refs[j].t = "Dangling" =>
                /\ file.layers[k][i].refs[j] = TagDespawned
                /\ LoadedSaved =>
                      save_entity_references(cells[persistent_layers[k][i]])[j]
                          = RefDespawned

\* an entity loaded with the despawned marker where it held a handle to a
\* despawned entity at the save, next to a live entity
C2_Witness ==
    /\ LoadedSaved
    /\ \E k \in DOMAIN saved : \E i \in 1..Len(saved[k]) :
          /\ saved[k][i].refs = <<NoPlace("Dangling")>>
          /\ cells[persistent_layers[k][i]].followee = RefDespawned
    /\ Cardinality(PersistentIds) = 2

\* C3: self-reference. An entity that referred to itself at the save is written
\* with a reference tag equal to its own tag, and after the load its reference
\* is a handle to its own new cell.
C3_SelfReference ==
    \A k \in DOMAIN saved : \A i \in 1..Len(saved[k]) :
        \A j \in 1..Len(saved[k][i].refs) :
            saved[k][i].refs[j] = Place(k, i) =>
                /\ file.layers[k][i].refs[j] = TagSome(file.layers[k][i].tag)
                /\ LoadedSaved =>
                      save_entity_references(cells[persistent_layers[k][i]])[j]
                          = RefSome(persistent_layers[k][i])

\* the second entity of the registry loaded with a reference to itself
C3_Witness ==
    /\ LoadedSaved
    /\ \E k \in DOMAIN saved : \E i \in 1..Len(saved[k]) :
          /\ saved[k][i].refs = <<Place(k, i)>>
          /\ cells[persistent_layers[k][i]].followee = RefSome(persistent_layers[k][i])
          /\ next_tag(persistent_layers, k, i) = 1


\* ---- frame phases
\* the entity whose callback runs
Current == EntityAt(Head(todo))
Live == PersistentIds \cup VolatileIds
FramePersistent == Range(Values(frame.persistent))
FrameVolatile == Range(Values(frame.volatile))

\* C4: while the runner has taken an entity out of its cell to run one of its
\* three callbacks, every resolution of a handle to that same cell from inside
\* the callback gave Taken (not Despawned, not the entity), the callback holds
\* nothing, the cell is still empty and the process has not panicked
C4_SelfResolution ==
    (pc \in UpdatePhases /\ sub = "cb" /\ e.followee = RefSome(Current)) =>
        /\ \A n \in 1..Len(res) : res[n] = "Taken"
        /\ held = NoHeld
        /\ cells[Current] = NoneCell

\* an entity that follows itself has resolved its handle inside generate_rate
C4_Witness ==
    /\ pc = "generate_rate"
    /\ sub = "cb"
    /\ e.followee = RefSome(Current)
    /\ res = <<"Taken">>

\* C5: a resolution gives Despawned exactly when no layer holds the target,
\* Taken exactly when a layer holds it and it is out (with the runner or with
\* the resolver), the entity otherwise; the entity leaves its cell empty, the
\* other two results change nothing, and a second resolution before the
\* entity is given back gives Taken
C5_Resolve ==
    [][res' # res /\ res' # <<>> =>
          LET t == e.followee.p
              r == res'[Len(res')]
              out == t = Current \/ t = held.id
          IN /\ r = "Despawned" <=> t \notin PersistentIds
             /\ r = "Taken" <=> (t \in PersistentIds /\ out)
             /\ r = "Some" <=> (t \in PersistentIds /\ ~out)
             /\ r = "Some" => /\ held' = [id |-> t, obj |-> cells[t]]
                              /\ cells' = [cells EXCEPT ![t] = NoneCell]
                              /\ held = NoHeld
             /\ r # "Some" => cells' = cells /\ held' = held
             /\ Len(res') = 2 => res' = <<"Some", "Taken">>]_vars

\* an entity resolved its handle twice without giving the entity back
C5_Witness ==
    /\ sub = "cb"
    /\ res = <<"Some", "Taken">>
    /\ held.id = e.followee.p
    /\ cells[held.id] = NoneCell

\* C6: while apply_rate runs every entity of every layer has had generate_rate,
\* while the third phase runs every entity has had apply_rate and nothing has
\* been inserted, and once the spawns are inserted every entity that was there
\* before has had its despawn check
C6_PhaseOrdering ==
    /\ pc = "generate_rate" => \A id \in Live : calls[id] \in {0, 1}
    /\ pc = "apply_rate" => \A id \in Live : calls[id] \in {1, 2}
    /\ pc = "apply_spawns" => /\ \A id \in Live : calls[id] \in {2, 3}
                              /\ frame.inserted = {}
    /\ pc = "render" => \A id \in Live \ frame.inserted : calls[id] = 3

\* spawns were inserted in a frame that kept a persistent and a volatile entity
C6_Witness ==
    /\ pc = "render"
    /\ frame.inserted # {}
    /\ PersistentIds \ frame.inserted # {}
    /\ VolatileIds \ frame.inserted # {}

\* C7, first part: during generate_rate and apply_rate the layers are those of
\* the start of the frame, and the first resolution of a handle to another
\* entity of these layers gives the entity
C7_Observed ==
    pc \in {"generate_rate", "apply_rate"} =>
        /\ persistent_layers = frame.persistent
        /\ volatile_layers = frame.volatile
        /\ (sub = "cb" /\ res # <<>> /\ e.followee.p \in FramePersistent
               /\ e.followee.p # Current) => res[1] = "Some"

\* C7, second part: inside run a layer gets shorter only in the third phase,
\* by the entity that reports, after its generate_rate and apply_rate
C7_Removal ==
    (/\ pc \notin {"events", "returned"}
     /\ \E k \in Registered : \/ Len(persistent_layers'[k]) < Len(persistent_layers[k])
                              \/ Len(volatile_layers'[k]) < Len(volatile_layers[k])) =>
        /\ pc = "apply_spawns"
        /\ sub = "cb"
        /\ calls[Current] = 2
        /\ Live' = Live \ {Current}

\* C7: an entity that reports despawn in a frame is in its layer and resolves
\* to itself for the others throughout the first two phases of that frame; it
\* is removed in the third phase only
C7_PreDespawn == []C7_Observed /\ [][C7_Removal]_vars

\* in the third phase an entity of the start of the frame is gone, and an
\* entity that is still there holds a handle to it
C7_Witness ==
    /\ pc = "apply_spawns"
    /\ \E b \in FramePersistent \ PersistentIds :
          \E a \in PersistentIds : /\ a # b
                                   /\ cells[a] # NoneCell
                                   /\ cells[a].followee = RefSome(b)

RECURSIVE Requested(_, _)
\* number of entities the requests of a list ask for layer k
Requested(spawns, k) ==
    IF spawns = <<>> THEN 0
    ELSE (IF Head(spawns).layer = k THEN Len(Head(spawns).spawns) ELSE 0)
         + Requested(Tail(spawns), k)

\* C8, first part: while the three phases run the layers hold entities of the
\* start of the frame only; the inserted entities are in the layers afterwards
\* and have had none of the three calls
C8_Deferred ==
    /\ pc \in UpdatePhases => /\ PersistentIds \subseteq FramePersistent
                              /\ VolatileIds \subseteq FrameVolatile
                              /\ frame.inserted = {}
    /\ pc = "render" => /\ frame.inserted \subseteq Live
                        /\ \A id \in frame.inserted : calls[id] = 0

\* C8, second part: the insertion appends to every layer exactly the entities
\* requested for it, and generate_rate of the next frame visits every entity
\* of every layer
C8_Insertion ==
    /\ (pc = "apply_spawns" /\ pc' = "render") =>
          /\ \A k \in Registered :
                /\ Len(persistent_layers'[k])
                      = Len(persistent_layers[k]) + Requested(persistent_spawn, k)
                /\ Len(volatile_layers'[k])
                      = Len(volatile_layers[k]) + Requested(volatile_spawn, k)
                /\ SubSeq(persistent_layers'[k], 1, Len(persistent_layers[k]))
                      = persistent_layers[k]
                /\ SubSeq(volatile_layers'[k], 1, Len(volatile_layers[k]))
                      = volatile_layers[k]
          /\ Cardinality(frame'.inserted)
                = Pending(persistent_spawn) + Pending(volatile_spawn)
    /\ (pc = "events" /\ pc' = "generate_rate") =>
          /\ {EntityAt(todo'[n]) : n \in 1..Len(todo')} = Live
          /\ Len(todo') = Cardinality(Live)

\* C8: an entity requested in the third phase of a frame is in no layer during
\* the three phases of that frame and gets none of their calls; the insertion
\* grows every layer by exactly what was requested for it, and the next frame
\* starts generate_rate over all entities
C8_SpawnDeferral == []C8_Deferred /\ [][C8_Insertion]_vars

\* one persistent entity was requested and inserted next to one that stayed
C8_Witness ==
    /\ pc = "render"
    /\ Cardinality(frame.inserted) = 1
    /\ frame.inserted \subseteq PersistentIds
    /\ Len(Values(persistent_layers)) = Len(Values(frame.persistent)) + 1
    /\ frame.persistent # EmptyLayers


\* ---- load of documents that must be refused
\* a step of GameState::load on a foreign document
LoadStep == pc = "returned" /\ last'.op = "load" /\ last'.doc \in 1..Len(ForeignDocs)

\* load returned Err to its caller and the registry is as it was
Refused ==
    /\ last'.result = "err"
    /\ UNCHANGED <<persistent_layers, volatile_layers, cells>>

\* the documents whose layer names are not those of the registry
MismatchDocs ==
    {n \in 1..Len(ForeignDocs) :
        /\ ForeignDocs[n].status = "ok"
        /\ DOMAIN ForeignDocs[n].layers # Registered}

\* some reference of the document names a tag that none of its entities carries
UnresolvedTag(d) ==
    \E n \in 1..Len(Values(d.layers)) :
       \E j \in 1..Len(Values(d.layers)[n].refs) :
          /\ Values(d.layers)[n].refs[j].t = "Some"
          /\ \A m \in 1..Len(Values(d.layers)) :
                Values(d.layers)[m].tag # Values(d.layers)[n].refs[j].u

\* the documents that are not a document at all or hold an unresolved tag
MalformedDocs ==
    {n \in 1..Len(ForeignDocs) :
        ForeignDocs[n].status = "garbage" \/ UnresolvedTag(ForeignDocs[n])}

\* C9: every load of a document whose layer names differ from the registry's
\* returns an error and leaves the layers and every cell as they were
C9_MismatchRejected == [][(LoadStep /\ last'.doc \in MismatchDocs) => Refused]_vars

\* C10: every load of a malformed document, one with a reference to a tag that
\* no entity of the document carries included, returns an error (no panic) and
\* leaves the layers and every cell as they were
C10_MalformedRejected == [][(LoadStep /\ last'.doc \in MalformedDocs) => Refused]_vars


\* ---- cells and ownership
\* the cell of id holds an entity (Some(Box)), not None, and is allocated
Occupied(c, id) == c[id].kind \in PersistentKinds \cup {"PrimarySquareTail"}

\* C11: whenever no callback is running (between frames, between two entities
\* of a phase, after run returned, after a spawn, clear, save or load) every
\* cell of every persistent and volatile layer holds exactly one entity, and
\* neither the runner nor a callback holds a Box taken from a cell
C11_Occupancy ==
    (sub = "idle" /\ pc # "panicked") =>
        /\ \A id \in Live : Occupied(cells, id)
        /\ e = NoBox
        /\ held = NoHeld

\* between two frames, after a frame in which an entity resolved its handle to
\* another entity, with entities in persistent and volatile layers
C11_Witness ==
    /\ pc = "events"
    /\ last = InRun
    /\ VolatileIds # {}
    /\ \E a \in PersistentIds, b \in PersistentIds :
          a # b /\ cells[a].followee = RefSome(b)


\* C12: when save returns an error every cell of every layer still holds its
\* entity (every take of the save was followed by a restore)
C12_RestoredAfterFailedSave ==
    last = Op("save", "err", 0) => \A id \in Live : Occupied(cells, id)


\* Rc::strong_count: the layer positions that hold the allocation
strong_count(pl, vl, id) ==
    Cardinality({n \in 1..Len(Values(pl) \o Values(vl)) : (Values(pl) \o Values(vl))[n] = id})

\* C13: between frames and after run returned (so after every spawn, clear,
\* save and load) every allocation that is alive is held by exactly one layer
\* position, and nothing else keeps an allocation alive; the same holds for
\* the registry a load or a clear_persistent leaves behind, before any
\* renaming of addresses: what load built on the side is released (save
\* changes no layer and no allocation)
SoleOwner(pl, vl, c) ==
    \A id \in Ids : strong_count(pl, vl, id) = IF c[id] # Freed THEN 1 ELSE 0

\* the documents a load can be given in the current state
Loadable ==
    {d \in {file} \cup Range(ForeignDocs) :
        Size(d) <= MaxPersistent /\ Size(d) <= Cardinality(FreeIds(cells))}

HandleTargets ==
    {cells[id].followee.p : id \in {x \in Live : cells[x].followee.v = "Some"}}
    \cup (IF e.followee.v = "Some" THEN {e.followee.p} ELSE {})

\* C14, state part: a handle whose target is in no layer resolves Despawned
\* (its allocation is gone), and every resolution of such a handle inside a
\* callback gave Despawned
C14_Gone ==
    /\ \A t \in HandleTargets \ PersistentIds : get(cells, t).r = "Despawned"
    /\ (sub = "cb" /\ e.followee.v = "Some" /\ e.followee.p \notin PersistentIds) =>
          \A n \in 1..Len(res) : res[n] = "Despawned"

\* C14, step part: the removal of the despawn phase frees the allocation, and
\* the insertion gives no new entity an address that a handle still points at
C14_Step ==
    /\ (pc = "apply_spawns" /\ sub = "cb" /\ Live' # Live) => cells'[Current] = Freed
    /\ (pc = "apply_spawns" /\ pc' = "render") =>
          \A id \in frame'.inserted : id \notin HandleTargets

\* C14: once the despawn phase has removed a slot from its layer, every later
\* resolution of a weak handle to it gives Despawned, never the entity and
\* never Taken
C14_DespawnInvalidates == []C14_Gone /\ [][C14_Step]_vars

\* in the despawn phase an entity resolved its handle to an entity that the
\* same phase had removed before
C14_Witness ==
    /\ pc = "apply_spawns"
    /\ sub = "cb"
    /\ e.followee.v = "Some"
    /\ e.followee.p \in FramePersistent \ PersistentIds
    /\ res = <<"Despawned">>


\* ---- layers
\* some collected spawn request names a layer that is not registered
BadRequest ==
    \E n \in 1..Len(persistent_spawn \o volatile_spawn) :
       (persistent_spawn \o volatile_spawn)[n].layer \notin Registered

\* the process panicked and the registry is as it was
Fatal ==
    /\ pc' = "panicked"
    /\ UNCHANGED <<persistent_layers, volatile_layers, cells>>

\* C15: a direct spawn either panics and changes nothing or adds exactly one
\* entity to a registered layer; when the collected spawn requests are
\* inserted and one of them names an unregistered layer the process panics,
\* otherwise every requested entity is inserted; no step adds a layer
C15_UnknownLayerFatal ==
    [][/\ (pc = "events" /\ last'.op \in {"spawn_persistent", "spawn_volatile"}) =>
             \/ last'.result = "panic" /\ Fatal
             \/ /\ last'.result = "ok"
                /\ pc' = pc
                /\ Cardinality(Live') = Cardinality(Live) + 1
       /\ (pc = "apply_spawns" /\ sub = "idle" /\ todo = <<>>) =>
             IF BadRequest THEN pc' = "panicked"
             ELSE /\ pc' = "render"
                  /\ Cardinality(Live') = Cardinality(Live) + Pending(persistent_spawn)
                                          + Pending(volatile_spawn)
       /\ DOMAIN persistent_layers' = DOMAIN persistent_layers
       /\ DOMAIN volatile_layers' = DOMAIN volatile_layers]_vars

\* the process panicked at the insertion: a request for an unregistered layer
\* is pending, after a request for a registered one
C15_Witness ==
    /\ pc = "panicked"
    /\ last = Op("run", "panic", 0)
    /\ BadRequest
    /\ Len(persistent_spawn \o volatile_spawn) = 2
    /\ (persistent_spawn \o volatile_spawn)[1].layer \in Registered


\* C16: in every reachable state (after every spawn, clear, frame step, save,
\* successful and failed load) the persistent and the volatile layer maps have
\* exactly the layer names given at construction
C16_FixedLayerSet ==
    /\ DOMAIN persistent_layers = Range(layer_names)
    /\ DOMAIN volatile_layers = Range(layer_names)

\* a load of a document with other layer names was refused by a registry that
\* holds entities
C16_Witness ==
    /\ last.op = "load"
    /\ last.result = "err"
    /\ last.doc \in MismatchDocs
    /\ PersistentIds # {}
    /\ C16_FixedLayerSet


\* ---- save
\* the document a save would write now
Doc == serialize_layers(persistent_layers, cells)

\* C17: whenever save can be called, the document it writes has one tagged
\* entity per slot, layer by layer, and along the traversal order (layers in
\* map order, then slots in layer order) the tags are 0, 1, ..., n-1; the file
\* a successful save left is that document
C17_DenseTags ==
    (pc \in {"events", "returned"} /\ Doc.status = "ok") =>
        /\ DOMAIN Doc.layers = DOMAIN persistent_layers
        /\ \A k \in DOMAIN persistent_layers :
              Len(Doc.layers[k]) = Len(persistent_layers[k])
        /\ \A n \in 1..Len(Values(Doc.layers)) : Values(Doc.layers)[n].tag = n - 1
        /\ last = Op("save", "ok", 0) => file = Doc

\* a save wrote a registry of two entities in two layers: the entity of the
\* layer registered first has the higher tag
C17_Witness ==
    /\ last = Op("save", "ok", 0)
    /\ Len(file.layers["background"]) = 1
    /\ Len(file.layers["objects"]) = 1
    /\ file.layers["objects"][1].tag = 1


\* the registry with its allocations at other addresses
Moved == Canon(persistent_layers, volatile_layers, cells)

\* C18: the document of a save is determined by the registry: the file a save
\* wrote is the document another save of the unmodified registry writes, and
\* the document (tags and encoded reference lists) does not depend on the
\* addresses of the allocations
C18_SaveDeterminism ==
    /\ last = Op("save", "ok", 0) => file = Doc
    /\ pc \in {"events", "render", "returned"} =>
          serialize_layers(Moved.persistent, Moved.cells) = Doc

\* a save wrote a registry in which an entity refers to another one
C18_Witness ==
    /\ last = Op("save", "ok", 0)
    /\ file = Doc
    /\ \E n \in 1..Len(Values(file.layers)) :
          /\ Values(file.layers)[n].refs # <<>>
          /\ Values(file.layers)[n].refs[1].t = "Some"
          /\ Values(file.layers)[n].refs[1].u # Values(file.layers)[n].tag


\* the positions and reference indexes whose handle points at an allocation
\* that the first pass of a save does not put into lookup_tag
Unresolvable ==
    {x \in [k : DOMAIN persistent_layers, i : 1..MaxPersistent, j : {1}] :
        /\ x.i <= Len(persistent_layers[x.k])
        /\ x.j <= Len(save_entity_references(cells[persistent_layers[x.k][x.i]]))
        /\ save_entity_references(cells[persistent_layers[x.k][x.i]])[x.j].v = "Some"
        /\ save_entity_references(cells[persistent_layers[x.k][x.i]])[x.j].p
              \notin DOMAIN lookup_tag(persistent_layers, cells)}

\* C19: whenever save can be called, it completes without panic, and every
\* reference whose target is not in the lookup of the first pass is written as
\* dangling
C19_SaveCompletes ==
    pc \in {"events", "returned"} =>
        /\ Doc.status = "ok"
        /\ \A x \in Unresolvable : Doc.layers[x.k][x.i].refs[x.j] = TagDespawned

\* a save completed on a registry that holds a handle to a despawned entity
C19_Witness ==
    /\ last = Op("save", "ok", 0)
    /\ Unresolvable # {}
    /\ file = Doc


\* ---- load
\* layer by layer the entities of the document d, in document order
Holds(layers, c, d) ==
    /\ DOMAIN layers = DOMAIN d.layers
    /\ \A k \in DOMAIN layers :
          /\ Len(layers[k]) = Len(d.layers[k])
          /\ \A i \in 1..Len(layers[k]) :
                /\ c[layers[k][i]].kind = d.layers[k][i].e
                /\ Len(save_entity_references(c[layers[k][i]])) = Len(d.layers[k][i].refs)

\* C20, state part: what a load of any document leaves behind: on success the
\* layers hold the document's entities, none of the entities of before, and
\* those are freed; otherwise the layers and every cell of their entities are
\* as before
C20_Replaced ==
    pc = "returned" =>
        \A d \in Loadable :
            LET r == load(d, persistent_layers, cells)
            IN /\ r.result = "ok" =>
                     /\ Holds(r.layers, r.cells, d)
                     /\ Range(Values(r.layers)) \cap PersistentIds = {}
                     /\ \A id \in PersistentIds : r.cells[id] = Freed
               /\ r.result # "ok" =>
                     /\ r.layers = persistent_layers
                     /\ \A id \in Live : r.cells[id] = cells[id]

\* C20, step part: a load is one step; after a successful one the registry
\* holds the document's entities and the volatile layers are as before
C20_Step ==
    (pc = "returned" /\ last'.op = "load" /\ last'.result = "ok") =>
        /\ Holds(persistent_layers', cells',
                 IF last'.doc = 0 THEN file ELSE ForeignDocs[last'.doc])
        /\ [k \in DOMAIN volatile_layers |-> Len(volatile_layers'[k])]
              = [k \in DOMAIN volatile_layers |-> Len(volatile_layers[k])]

\* C20: a successful load replaces every persistent layer by the document's
\* layer of the same name, in document order, keeping none of the entities of
\* before; no registry with only some layers replaced exists
C20_AtomicReplace == []C20_Replaced /\ [][C20_Step]_vars

\* a document with different entities in its two layers was loaded
C20_Witness ==
    /\ last = Op("load", "ok", 11)
    /\ cells[persistent_layers["objects"][1]].followee = RefDespawned
    /\ cells[persistent_layers["background"][1]].followee = RefNone


\* the loaded entity holds ref for the entry r of its reference list in the
\* document d: unset, despawned, or a handle to a loaded entity that carries
\* the tag of the entry
Imported(r, ref, d, layers) ==
    CASE r.t = "None" -> ref = RefNone
      [] r.t = "Despawned" -> ref = RefDespawned
      [] r.t = "Some" ->
            /\ ref.v = "Some"
            /\ \E k \in DOMAIN layers : \E i \in 1..Len(layers[k]) :
                  layers[k][i] = ref.p /\ d.layers[k][i].tag = r.u

\* the number of references an entity of this kind accepts on load
Accepts(kind, n) == IF kind = "Follower" THEN n = 1 ELSE n = 0

C22_RestoreOccupied ==
    [][/\ last'.op = "set" => (pc' = "panicked" /\ UNCHANGED cells)
       /\ \A id \in PersistentIds :
             (sub = "cb" /\ Occupied(cells, id) /\ Occupied(cells', id)) =>
                 cells'[id] = cells[id]]_vars


\* the runner stands at an entity whose cell is empty
AtTaken ==
    /\ \/ pc \in UpdatePhases /\ sub = "idle"
       \/ pc = "render"
    /\ todo # <<>>
    /\ cells[Current] = NoneCell

\* C23: when the runner of a phase (or of render) reaches an entity whose cell
\* is empty the process panics there, with nothing visited, called or changed;
\* a callback only ever runs on an entity; a save of a registry with an empty
\* cell panics and writes nothing
C23_TakenFatal ==
    /\ [](sub = "cb" => e.kind \in PersistentKinds \cup {PrimarySquareTail.kind})
    /\ []((pc = "returned" /\ \E id \in PersistentIds : cells[id] = NoneCell) =>
              Doc.status = "panic")
    /\ [][/\ AtTaken => /\ pc' = "panicked"
                        /\ UNCHANGED <<persistent_layers, volatile_layers, cells, todo,
                                       sub, e, calls>>
          /\ (pc = "returned" /\ Doc.status = "panic" /\ last'.op = "save"
                /\ last'.result # "err") =>
                 (pc' = "panicked" /\ file' = file)]_vars

\* a callback dropped the Box another entity's cell gave it and the runner has
\* panicked at that entity
C23_Witness ==
    /\ pc = "panicked"
    /\ last = Op("run", "panic", 0)
    /\ sub = "idle"
    /\ todo # <<>>
    /\ cells[Current] = NoneCell


\* ---- phases
\* C24: during apply_rate no callback takes another entity out of its cell to
\* read it: no resolution of a handle gives Some and no callback holds the Box
\* of another entity
C24_ApplyRateIsolation ==
    pc = "apply_rate" =>
        /\ held = NoHeld
        /\ \A n \in 1..Len(res) : res[n] # "Some"


RECURSIVE RequestedFor(_, _)
\* the entities the requests of a list ask for layer k, in request order
RequestedFor(spawns, k) ==
    IF spawns = <<>> THEN <<>>
    ELSE (IF Head(spawns).layer = k THEN Head(spawns).spawns ELSE <<>>)
         \o RequestedFor(Tail(spawns), k)

\* the entities a layer holds from index n + 1 on
Appended(layer, n, c) == [i \in 1..(Len(layer) - n) |-> c[layer[n + i]]]

\* C25: when apply_spawns of an entity reports Despawn the entity leaves its
\* layer in that step and the entities it requested are added, after those
\* already collected, to the requests of the frame; the insertion of that
\* frame appends to every layer the entities requested for it, in request
\* order, and leaves no request behind
C25_DespawningSpawns ==
    [][/\ (pc = "apply_spawns" /\ sub = "cb" /\ last'.op = "apply_spawns"
             /\ last'.result = "Despawn") =>
             /\ Live' = Live \ {Current}
             /\ Pending(persistent_spawn') + Pending(volatile_spawn')
                   = Pending(persistent_spawn) + Pending(volatile_spawn) + last'.doc
             /\ SubSeq(persistent_spawn', 1, Len(persistent_spawn)) = persistent_spawn
             /\ SubSeq(volatile_spawn', 1, Len(volatile_spawn)) = volatile_spawn
       /\ (pc = "apply_spawns" /\ pc' = "render") =>
             /\ \A k \in Registered :
                   /\ Appended(persistent_layers'[k], Len(persistent_layers[k]), cells')
                         = RequestedFor(persistent_spawn, k)
                   /\ Appended(volatile_layers'[k], Len(volatile_layers[k]), cells')
                         = RequestedFor(volatile_spawn, k)
             /\ persistent_spawn' = <<>>
             /\ volatile_spawn' = <<>>]_vars

\* every entity of the start of the frame reported Despawn, and the entities
\* now in the layers are the ones they requested
C25_Witness ==
    /\ pc = "render"
    /\ frame.inserted # {}
    /\ Live = frame.inserted
    /\ FramePersistent \cup FrameVolatile # {}


\* ---- clear and load
\* the entities of every layer of a map, in layer order
Contents(layers, c) ==
    [k \in DOMAIN layers |-> [i \in 1..Len(layers[k]) |-> c[layers[k][i]]]]

\* C26: clear_persistent leaves every persistent layer empty and every
\* volatile layer with the entities it had, in their order; clear leaves every
\* layer of both maps empty; both keep the keys of both maps
C26_ClearScopes ==
    [][/\ (pc \in {"events", "returned"} /\ last'.op = "clear_persistent") =>
             /\ persistent_layers' = EmptyLayers
             /\ DOMAIN volatile_layers' = Registered
             /\ Contents(volatile_layers', cells') = Contents(volatile_layers, cells)
       /\ (pc \in {"events", "returned"} /\ last'.op = "clear") =>
             /\ persistent_layers' = EmptyLayers
             /\ volatile_layers' = EmptyLayers]_vars

\* clear_persistent has returned and a volatile entity is still in its layer
C26_Witness ==
    /\ last = Op("clear_persistent", "ok", 0)
    /\ PersistentIds = {}
    /\ VolatileIds # {}


\* C27: a load that returns Ok leaves every volatile entity in its cell as it
\* was, and every volatile layer with the entities it had, in their order
C27_LoadKeepsVolatile ==
    /\ [](pc = "returned" =>
            \A d \in Loadable :
               LET r == load(d, persistent_layers, cells)
               IN r.result = "ok" =>
                     /\ \A id \in VolatileIds : r.cells[id] = cells[id]
                     /\ Range(Values(r.layers)) \cap VolatileIds = {})
    /\ [][(pc = "returned" /\ last'.op = "load" /\ last'.result = "ok") =>
             /\ DOMAIN volatile_layers' = Registered
             /\ Contents(volatile_layers', cells') = Contents(volatile_layers, cells)]_vars

\* a document with entities has been loaded into a registry that had
\* persistent entities and has a volatile entity
C27_Witness ==
    /\ pc = "returned"
    /\ last.op = "load"
    /\ last.result = "ok"
    /\ VolatileIds # {}
    /\ PersistentIds # {}


\* ---- the third phase
\* the entity has not been dropped
Retained(id) == cells[id] # Freed

\* C28: throughout the third phase every layer is the layer of the start of
\* the phase without the entities that have reported Despawn so far, the
\* others in their original order; a report of Retain leaves the layers as
\* they are and a report of Despawn removes the reporting entity and no other;
\* when the phase is over the entities left are the ones that reported Retain
C28_ExactDespawn ==
    /\ [](pc = "apply_spawns" =>
            /\ \A k \in Registered :
                  /\ persistent_layers[k] = SelectSeq(frame.persistent[k], Retained)
                  /\ volatile_layers[k] = SelectSeq(frame.volatile[k], Retained)
            /\ (sub = "idle" /\ todo = <<>>) => \A id \in Live : calls[id] = 3)
    /\ [][(pc = "apply_spawns" /\ last'.op = "apply_spawns") =>
             IF last'.result = "Retain"
             THEN /\ UNCHANGED <<persistent_layers, volatile_layers>>
                  /\ cells'[Current] = e
                  /\ calls'[Current] = 3
             ELSE /\ cells'[Current] = Freed
                  /\ Live' = Live \ {Current}
                  /\ \A id \in Live' : cells'[id] = cells[id]]_vars

\* the third phase is over: of the two persistent entities of one layer at
\* the start of the frame the first one is gone and the second one is left
C28_Witness ==
    /\ pc = "apply_spawns"
    /\ sub = "idle"
    /\ todo = <<>>
    /\ \E k \in Registered :
          /\ Len(frame.persistent[k]) = 2
          /\ persistent_layers[k] = <<frame.persistent[k][2]>>


\* the number of the phase: the calls an entity has had when the phase is over
Phase == CASE pc = "generate_rate" -> 1 [] pc = "apply_rate" -> 2 [] OTHER -> 3

\* the position names an entity of the layers as they are now
Valid(pos) ==
    pos.i <= Len(IF pos.m = "persistent" THEN persistent_layers[pos.k]
                 ELSE volatile_layers[pos.k])

\* the entities the phase has still to call (the one being called included)
ToVisit == {EntityAt(todo[n]) : n \in 1..Len(todo)}

\* C29, first part: in each of the three phases the positions still to visit
\* name, once each, exactly the entities of the start of the frame that have
\* not had the call of this phase; every other entity of the start of the
\* frame has had it exactly once (or has reported Despawn in the third phase)
C29_Pending ==
    pc \in UpdatePhases =>
        /\ \A n \in 1..Len(todo) : Valid(todo[n])
        /\ \A m, n \in 1..Len(todo) : m # n => EntityAt(todo[m]) # EntityAt(todo[n])
        /\ \A id \in FramePersistent \cup FrameVolatile :
              IF id \in ToVisit
              THEN Retained(id) /\ calls[id] = Phase - 1
              ELSE \/ calls[id] = Phase /\ id \in Live
                   \/ pc = "apply_spawns" /\ ~Retained(id) /\ id \notin Live
        /\ ToVisit \subseteq FramePersistent \cup FrameVolatile

\* C29, second part: a call is made on the entity at the head of the order and
\* is its first call of this phase; when it ends that entity, and no other, has
\* one call more and leaves the order; a phase ends only when the order is
\* empty, and the phases follow each other in the order generate_rate,
\* apply_rate, apply_spawns
C29_Call ==
    /\ (pc \in UpdatePhases /\ sub = "idle" /\ sub' = "cb") =>
          /\ e' = cells[Current]
          /\ calls[Current] = Phase - 1
          /\ todo' = todo
    /\ (pc \in UpdatePhases /\ sub = "cb" /\ sub' = "idle") =>
          /\ calls[Current] = Phase - 1
          /\ calls'[Current] = Phase \/ (pc = "apply_spawns" /\ cells'[Current] = Freed)
          /\ \A id \in Ids \ {Current} : calls'[id] = calls[id]
          /\ todo' = Tail(todo)
          /\ pc' = pc
    /\ (pc \in UpdatePhases /\ pc' \notin {pc, "panicked"}) =>
          /\ todo = <<>>
          /\ sub = "idle"
          /\ pc' = CASE pc = "generate_rate" -> "apply_rate"
                     [] pc = "apply_rate" -> "apply_spawns"
                     [] OTHER -> "render"
    /\ (pc \in UpdatePhases /\ sub' = sub /\ pc' = pc) => UNCHANGED <<todo, calls>>

\* C29: in a frame every entity of the registry gets one generate_rate call,
\* then one apply_rate call, then one apply_spawns call; none is passed over
\* and none is called twice in a phase, whatever is removed in the third phase
C29_ExactlyOnce == []C29_Pending /\ [][C29_Call]_vars

\* the third phase is calling the first entity of a layer after the second
\* one has been removed from it
C29_Witness ==
    /\ pc = "apply_spawns"
    /\ sub = "cb"
    /\ \E k \in Registered :
          /\ Len(frame.persistent[k]) = 2
          /\ ~Retained(frame.persistent[k][2])
          /\ Current = frame.persistent[k][1]


\* ---- load lookup
\* C30: for every document a load can be given, the references rebuilt for
\* every entity with the lookup over the referenced tags are the ones rebuilt
\* with the lookup over all tagged entities, the failing ones included; the
\* lookup over the referenced tags is the other one restricted to these tags
C30_LookupRestriction ==
    pc = "returned" =>
        \A d \in {x \in Loadable : x.status = "ok"} :
            LET tagged == Values(d.layers)
                ids == NewIds(cells, Len(tagged))
                some == lookup_entity(tagged, ids)
                all == lookup_entity_all(tagged, ids)
            IN /\ \A n \in 1..Len(tagged) :
                     LoadRefs(tagged[n].refs, some) = LoadRefs(tagged[n].refs, all)
               /\ DOMAIN some = DOMAIN all \cap referenced_tags(tagged)
               /\ \A u \in DOMAIN some : some[u] = all[u]

\* a loaded document had an entity that no reference names and an entity with
\* a reference to another one: the first is left out of the lookup
C30_Witness ==
    /\ pc = "returned"
    /\ last.op = "load"
    /\ last.result = "ok"
    /\ \E a \in PersistentIds, b \in PersistentIds :
          /\ a # b
          /\ cells[a].followee = RefSome(b)
          /\ weak_count(cells, a) = 0


\* ---- save lookup
\* the declared references of the persistent entities that upgrade
Upgradable ==
    {r \in UNION {Range(save_entity_references(cells[id])) : id \in PersistentIds} :
        r.v = "Some" /\ upgrade(cells, r.p)}

\* C31: whenever save can be called and the registry is the only strong
\* owner, every declared reference that upgrades has its target in the lookup
\* of the first pass, under the tag the lookup over all entities gives it, and
\* the second pass writes every reference as it would with that lookup
C31_SaveLookup ==
    (pc \in {"events", "returned"}
       /\ SoleOwner(persistent_layers, volatile_layers, cells)) =>
        LET some == lookup_tag(persistent_layers, cells)
            all == lookup_tag_all(persistent_layers, cells)
        IN /\ \A r \in Upgradable : r.p \in DOMAIN some /\ some[r.p] = all[r.p]
           /\ \A id \in PersistentIds :
                 SaveRefs(cells[id], cells, some) = SaveRefs(cells[id], cells, all)
           /\ DOMAIN some \subseteq DOMAIN all

\* a save wrote a registry in which a reference upgrades and the entity that
\* holds it has no weak handle on it, so that it is left out of the lookup
C31_Witness ==
    /\ last = Op("save", "ok", 0)
    /\ Upgradable # {}
    /\ \E id \in PersistentIds : id \notin DOMAIN lookup_tag(persistent_layers, cells)


\* ---- tags
\* the document d with every tag value u, of entities and of references,
\* replaced by 9 - u (the tag values of the documents are below 10): other
\* values in the opposite order
Retag(d) ==
    [d EXCEPT !.layers =
        [k \in DOMAIN d.layers |->
            [i \in 1..Len(d.layers[k]) |->
                [e |-> d.layers[k][i].e,
                 tag |-> 9 - d.layers[k][i].tag,
                 refs |-> [j \in 1..Len(d.layers[k][i].refs) |->
                             IF d.layers[k][i].refs[j].t = "Some"
                             THEN TagSome(9 - d.layers[k][i].refs[j].u)
                             ELSE d.layers[k][i].refs[j]]]]]]

\* the document a save writes right after a load of d that returned Ok
Resaved(d) ==
    LET r == load(d, persistent_layers, cells)
    IN serialize_layers(r.layers, r.cells)

\* the index, along the traversal order of d, of the entity a reference to
\* the tag u is wired to: the last one that carries u
Wired(d, u) ==
    CHOOSE n \in 1..Size(d) :
        /\ Values(d.layers)[n].tag = u
        /\ \A m \in (n + 1)..Size(d) : Values(d.layers)[m].tag # u

\* C32: for every document whose load returns Ok, the save that follows tags
\* the entities 0, 1, ..., n-1 along the traversal order and writes every
\* reference with the position of the entity it was wired to, whatever the
\* tag values of the document were: the document with other tag values gives
\* the same saved document
C32_FreshTags ==
    pc = "returned" =>
        \A d \in Loadable :
            load(d, persistent_layers, cells).result = "ok" =>
                LET s == Resaved(d)
                IN /\ s.status = "ok"
                   /\ \A n \in 1..Size(s) :
                         /\ Values(s.layers)[n].tag = n - 1
                         /\ \A j \in 1..Len(Values(s.layers)[n].refs) :
                               Values(d.layers)[n].refs[j].t = "Some" =>
                                  Values(s.layers)[n].refs[j]
                                     = TagSome(Wired(d, Values(d.layers)[n].refs[j].u) - 1)
                   /\ load(Retag(d), persistent_layers, cells).result = "ok"
                   /\ Resaved(Retag(d)) = s

\* the document with the tags 7 and 3 has been loaded: the save that follows
\* tags its entities 0 and 1
C32_Witness ==
    /\ pc = "returned"
    /\ last = Op("load", "ok", 7)
    /\ Doc.status = "ok"
    /\ Values(Doc.layers)[1].tag = 0
    /\ Values(Doc.layers)[1].refs = <<TagSome(1)>>
    /\ Values(Doc.layers)[2].refs = <<TagSome(0)>>


\* ---- events and render
\* no entity has had a call of the frame and no callback is running
NoCallYet ==
    /\ \A id \in Ids : calls[id] = 0
    /\ todo = <<>>
    /\ sub = "idle"
    /\ e = NoBox
    /\ frame = NoFrame

\* C33, state part: while the events of a frame are handled, and after run
\* has returned, no entity has had a call of that frame
C33_BeforePhases == pc \in {"events", "returned"} => NoCallYet

\* C33, step part: generate_rate starts only from the event handling, once it
\* is over; when the handler asks to stop run returns Ok, when it fails run
\* returns Err, in both cases with the registry as the handler left it and no
\* call made; the event handling is left for nothing else, and after run has
\* returned no phase and no render follows
C33_Step ==
    /\ (pc' = "generate_rate" /\ pc # "generate_rate") =>
          /\ pc = "events"
          /\ UNCHANGED <<persistent_layers, volatile_layers, cells>>
    /\ (pc = "events" /\ last'.op = "run" /\ last'.result \in {"ok", "err"}) =>
          /\ pc' = "returned"
          /\ UNCHANGED <<persistent_layers, volatile_layers, cells, calls, todo>>
    /\ (pc = "events" /\ pc' = "returned") =>
          last' \in {Op("run", "ok", 0), Op("run", "err", 0)}
    /\ pc = "events" => pc' \in {"events", "generate_rate", "returned", "panicked"}
    /\ pc = "returned" => pc' \in {"returned", "panicked"}

\* C33: the events of a frame are handled before its first generate_rate
\* call, and a handler that stops or fails makes run return without a phase
\* or a render of that frame
C33_EventsFirst == []C33_BeforePhases /\ [][C33_Step]_vars

\* the handler failed with entities in the registry: run returned the error
\* and none of them has been called
C33_Witness ==
    /\ pc = "returned"
    /\ last = Op("run", "err", 0)
    /\ PersistentIds # {}
    /\ VolatileIds # {}
    /\ NoCallYet


\* the place of a layer in the order given at construction
LayerIndex(k) == CHOOSE n \in 1..Len(layer_names) : layer_names[n] = k

\* position a is rendered before position b: an earlier layer, or in the
\* same layer a volatile entity before a persistent one, or a lower index
Before(a, b) ==
    \/ LayerIndex(a.k) < LayerIndex(b.k)
    \/ /\ a.k = b.k
       /\ \/ a.m = "volatile" /\ b.m = "persistent"
          \/ a.m = b.m /\ a.i < b.i

\* C34, state part: while a frame is rendered the positions still to render
\* are valid, come in rendering order, name distinct entities of the
\* registry, and every entity not among them has its place before theirs
\* in rendering order: it is one already rendered
C34_Order ==
    pc = "render" =>
        /\ \A n \in 1..Len(todo) : Valid(todo[n])
        /\ \A m, n \in 1..Len(todo) : m < n => Before(todo[m], todo[n])
        /\ \A m, n \in 1..Len(todo) : m # n => EntityAt(todo[m]) # EntityAt(todo[n])
        /\ ToVisit \subseteq Live
        /\ \A a \in ToVisit, b \in Live \ ToVisit :
              \E n \in 1..Len(todo) : \E k \in Registered : \E m \in {"persistent", "volatile"} :
                 \E i \in 1..MaxPersistent :
                    /\ Valid(Pos(m, k, i))
                    /\ EntityAt(Pos(m, k, i)) = b
                    /\ EntityAt(todo[n]) = a
                    /\ Before(Pos(m, k, i), todo[n])

\* C34, step part: rendering starts with the insertion, over every entity
\* then in the registry, the inserted ones included; one render takes the
\* first position off and leaves the registry alone; the frame ends only when
\* nothing is left to render
C34_Step ==
    /\ (pc # "render" /\ pc' = "render") =>
          /\ pc = "apply_spawns"
          /\ {EntityAt(todo[n]) : n \in 1..Len(todo)}' = Live'
          /\ Len(todo') = Cardinality(Live')
          /\ frame'.inserted \subseteq Live'
    /\ (pc = "render" /\ pc' = "render") =>
          /\ todo' = Tail(todo)
          /\ UNCHANGED <<persistent_layers, volatile_layers, cells>>
    /\ (pc = "render" /\ pc' \notin {"render", "panicked"}) =>
          /\ todo = <<>>
          /\ pc' = "events"

\* C34: after the insertion of a frame every entity of the registry is
\* rendered once, layer by layer in the order given at construction, in a
\* layer the volatile entities in layer order and then the persistent ones
C34_RenderOrder == []C34_Order /\ [][C34_Step]_vars

\* rendering starts over a layer that holds a volatile and a persistent
\* entity, one of them inserted in this frame
C34_Witness ==
    /\ pc = "render"
    /\ Len(todo) = Cardinality(Live)
    /\ frame.inserted # {}
    /\ \E k \in Registered : volatile_layers[k] # <<>> /\ persistent_layers[k] # <<>>
    /\ \E k \in Registered : k # layer_names[1] /\ persistent_layers[k] # <<>>


\* ---- save leaves the registry alone
\* C35: a save that returns Ok leaves every persistent and volatile layer
\* with the same cells in the same order, every cell with the entity and the
\* declared references it held, and every cell of an entity occupied
C35_SaveReadOnly ==
    [][(pc = "returned" /\ last' = Op("save", "ok", 0)) =>
          /\ UNCHANGED <<persistent_layers, volatile_layers>>
          /\ \A id \in Ids : cells'[id] = cells[id]
          /\ \A id \in Live' : Occupied(cells', id)
          /\ Topology(persistent_layers', cells') = Topology(persistent_layers, cells)
          /\ saved' = Topology(persistent_layers', cells')]_vars

\* a save has written a registry of two persistent entities, one holding a
\* handle to the other, and a volatile entity
C35_Witness ==
    /\ last = Op("save", "ok", 0)
    /\ VolatileIds # {}
    /\ \E a \in PersistentIds, b \in PersistentIds :
          a # b /\ cells[a].followee = RefSome(b) /\ Occupied(cells, b)


\* ---- handles across a load
\* C36: for every document whose load returns Ok: a handle to any persistent
\* entity of the registry of before the load resolves Despawned afterwards,
\* no loaded entity sits at the address of one of them, and every handle a
\* loaded entity holds points to a loaded entity
C36_LoadInvalidates ==
    pc = "returned" =>
        \A d \in Loadable :
            LET r == load(d, persistent_layers, cells)
                new == Range(Values(r.layers))
            IN r.result = "ok" =>
                  /\ \A id \in PersistentIds : get(r.cells, id).r = "Despawned"
                  /\ new \cap PersistentIds = {}
                  /\ \A id \in new :
                        r.cells[id].followee.v = "Some" =>
                           /\ r.cells[id].followee.p \in new
                           /\ get(r.cells, r.cells[id].followee.p).r = "Some"

\* a document in which two entities refer to each other has been loaded over
\* a registry: the loaded entities hold handles to each other
C36_Witness ==
    /\ pc = "returned"
    /\ last.op = "load"
    /\ last.result = "ok"
    /\ \E a \in PersistentIds, b \in PersistentIds :
          /\ a # b
          /\ cells[a].followee = RefSome(b)
          /\ cells[b].followee = RefSome(a)


\* ---- ui
\* C37: a call of process hands the event to components of the layer that was
\* the backmost one when it was called, and to no other: to the first, the
\* second, ... in this order, each one after all those before it returned
\* None, and to none after one that returned something else; that one's
\* result is the result the UI acts on
C37_EventRouting ==
    [][ui'.op = "process" =>
          LET top == Len(ui.layers)
              n == Len(ui'.offered)
          IN /\ \A i \in 1..n : /\ ui'.offered[i].layer = top
                                /\ ui'.offered[i].index = i
                                /\ i < n => ui'.offered[i].r = None
             /\ top = 0 => n = 0
             /\ top > 0 => /\ n \in 1..Len(ui.layers[top])
                           /\ ui'.offered[n].r = ui'.result
                           /\ ui'.result = None => n = Len(ui.layers[top])]_vars

\* under a layer of two components lies another layer; the first component of
\* the backmost layer answered Quit and was the only one to get the event
C37_Witness ==
    /\ ui.op = "process"
    /\ Len(ui.layers) >= 2
    /\ Len(ui.layers[Len(ui.layers)]) = 2
    /\ ui.result = Quit
    /\ Len(ui.offered) = 1
    /\ ui.offered[1].layer = Len(ui.layers)

\* C38: after every add and every process no layer of the UI is empty, and
\* the debug assertion at the start of process has never failed
C38_NoEmptyLayer ==
    /\ ui.asserted
    /\ \A i \in 1..Len(ui.layers) : ui.layers[i] # <<>>

\* a component answered ReplaceLayer with an empty layer: the backmost layer
\* is gone and the layers under it are left
C38_Witness ==
    /\ ui.op = "process"
    /\ ui.result = ReplaceLayer(<<>>)
    /\ ui.layers # <<>>

\* ---- fonts
\* a wrapper of the key k is alive
Alive(fm, k) == \E f \in FontIds : fm.key[f] = k /\ fm.count[f] > 0

\* C39: a get for a key that has a wrapper alive loads nothing and gives the
\* font those wrappers hold; the drop of a wrapper that is not the last of its
\* font leaves the manager's map as it is, and the drop of the last one
\* removes the entry of its key and no other
C39_FontSharing ==
    [][/\ (fonts'.op = "get" /\ Alive(fonts, fonts'.arg)) =>
             /\ ~fonts'.loaded
             /\ \A f \in FontIds :
                   (fonts.key[f] = fonts'.arg /\ fonts.count[f] > 0) => f = fonts'.font
       /\ fonts'.op = "drop" =>
             \A k \in FontKeys :
                IF k = fonts'.arg /\ fonts.count[fonts'.font] = 1
                THEN fonts'.cache[k] = NoFont
                ELSE fonts'.cache[k] = fonts.cache[k]]_vars

====
